---- MODULE Spec2Model ----
(***************************************************************************)
(* Receipt generator (BelConfort): the bundle pricing of App               *)
(* (getBundleDetails and the total calculations) and the totals that       *)
(* createPDFDoc prints.                                                    *)
(*                                                                         *)
(* Money is counted in whole reais.  Every catalogue price is a multiple   *)
(* of 100, so subtotal * (discountValue / 100) is an exact integer and is  *)
(* written (subtotal * discountValue) \div 100.                            *)
(* Names are strings (see Atilde for the accented letters); toUpperCase,   *)
(* includes and startsWith are computed character by character as          *)
(* String.prototype does.                                                  *)
(***************************************************************************)
EXTENDS Integers, Sequences, FiniteSets, TLC

\* data: the receipt (ReceiptData);  pc: the position of the flow at hand;
\* view: what App renders;  pdf: the totals createPDFDoc prints;
\* doc: the jsPDF document and cursor of a createPDFDoc call;
\* ui: the import tab (text, flag, error);  req: the import request in flight
VARIABLES data, pc, view, pdf, doc, ui, req

vars == <<data, pc, view, pdf, doc, ui, req>>

(* ------------------------------ bounds --------------------------------- *)
\* longest cart drawn as an input
MaxCart == 3

(* ------------------------- numbers and strings ------------------------- *)
Max(a, b) == IF a >= b THEN a ELSE b
Min(a, b) == IF a <= b THEN a ELSE b

\* TLC keeps 7-bit characters only in the strings of a state, so the two
\* accented letters of the names are written with stand-ins: A-tilde (upper
\* case) is "@" and a-tilde (lower case) is "$".
Atilde == "@"
atilde == "$"

LowerChars == "abcdefghijklmnopqrstuvwxyz" \o atilde
UpperChars == "ABCDEFGHIJKLMNOPQRSTUVWXYZ" \o Atilde

\* the upper-case form of every lower-case character
UpperOf ==
    [c \in { SubSeq(LowerChars, i, i) : i \in 1..Len(LowerChars) } |->
        LET i == CHOOSE j \in 1..Len(LowerChars) : SubSeq(LowerChars, j, j) = c
        IN  SubSeq(UpperChars, i, i)]

\* one character of String.prototype.toUpperCase
UpperChar(c) == IF c \in DOMAIN UpperOf THEN UpperOf[c] ELSE c

RECURSIVE toUpperCase(_)
toUpperCase(s) ==
    IF Len(s) = 0 THEN s
    ELSE UpperChar(SubSeq(s, 1, 1)) \o toUpperCase(SubSeq(s, 2, Len(s)))

\* String.prototype.includes: t occurs in s as a contiguous substring
includes(s, t) ==
    \E i \in 1..(Len(s) - Len(t) + 1) : SubSeq(s, i, i + Len(t) - 1) = t

\* String.prototype.startsWith
startsWith(s, t) ==
    Len(s) >= Len(t) /\ SubSeq(s, 1, Len(t)) = t

(* ------------------------------ catalogue ------------------------------ *)
specificPillowName == "TRAVESSEIRO FLOCOS CONFORTO 20CM 60X40 BRANCO"

\* the three accented catalogue names
COLCHAO_CASAL      == "COLCH" \o Atilde \o "O CASAL"
COLCHAO_SUPER_KING == "COLCH" \o Atilde \o "O SUPER KING"
COLCHAO_KING       == "COLCH" \o Atilde \o "O KING"

\* PRODUCT_CATALOG of ./types: name and unit price of every product
PRODUCT_CATALOG == <<
    [name |-> specificPillowName,                               price |-> 100],
    [name |-> "Travesseiro Flocos Conforto 20cm 60x40 Branco",  price |-> 100],
    [name |-> COLCHAO_CASAL,                                  price |-> 1000],
    [name |-> "Colchao Queen",                                  price |-> 1200],
    [name |-> COLCHAO_SUPER_KING,                             price |-> 2000],
    [name |-> COLCHAO_KING,                                   price |-> 1800],
    [name |-> "BASE CASAL",                                     price |-> 400],
    [name |-> "BASE CASAL PREMIUM",                             price |-> 500],
    [name |-> "Base Box Queen",                                 price |-> 200],
    [name |-> "BASE SUPER KING",                                price |-> 600],
    [name |-> "BASE KING",                                      price |-> 500],
    [name |-> "CAMA BASE CASAL",                                price |-> 700] >>

\* product names that carry several size tokens, or none
SizedNames ==
    { "Colchao Casal Queen", "Colchao Queen Super King",
      "BASE CASAL QUEEN", "BASE QUEEN SUPER KING" }

\* p.name.toUpperCase() of every product name, tabulated once
upperName ==
    [n \in { PRODUCT_CATALOG[i].name : i \in DOMAIN PRODUCT_CATALOG }
            \cup SizedNames |->
        toUpperCase(n)]

\* a Product (./types) as handleAddProduct builds it
Product(name, quantity) ==
    LET entry == CHOOSE e \in { PRODUCT_CATALOG[i] : i \in DOMAIN PRODUCT_CATALOG } :
                    e.name = name
    IN  [code |-> "100000", name |-> name, price |-> entry.price,
         quantity |-> quantity, warrantyTime |-> "", warrantyUnit |-> "MESES"]

\* the line items the inputs are drawn from: catalogue products with the
\* quantities handleAddProduct can store (parseInt(selectedQuantity) || 1 is
\* any non-zero integer the clerk types)
LineItems == {
    Product(specificPillowName, 1),
    Product("Travesseiro Flocos Conforto 20cm 60x40 Branco", 1),
    Product(COLCHAO_CASAL, 2),
    Product("Colchao Queen", 1),
    Product(COLCHAO_SUPER_KING, 1),
    Product(COLCHAO_KING, 1),
    Product("BASE CASAL", 1),
    Product("BASE CASAL PREMIUM", 2),
    Product("Base Box Queen", 1),
    Product("BASE SUPER KING", 1),
    Product("BASE KING", 1),
    Product("CAMA BASE CASAL", 1),
    Product("BASE CASAL", -2) }

Carts == UNION { [1..n -> LineItems] : n \in 0..MaxCart }

\* discountType / discountValue pairs of ReceiptData
DiscountConfigs ==
    { [discountType |-> "fixed",      discountValue |-> 0],
      [discountType |-> "fixed",      discountValue |-> 50],
      [discountType |-> "fixed",      discountValue |-> 9000],
      [discountType |-> "percentage", discountValue |-> 10],
      [discountType |-> "percentage", discountValue |-> 100] }

(* --------------------------- getBundleDetails -------------------------- *)
targetPriceCasal     == 250
targetPriceQueen     == 300
targetPriceSuperKing == 350

labelComboGift == "Desconto Combo + Travesseiro Brinde"
labelCombo     == "Desconto Combo (Base+Colch" \o atilde \o "o)"
labelGift      == "Desconto (Travesseiro Brinde)"
labelFallback  == "Desconto Promocional"

\* variant: "another product" decided by the number of line items
hasAnyOtherProduct_byCount(products) == Len(products) > 1

\* 1. products.some(p => p.name !== specificPillowName)
hasAnyOtherProduct(products) ==
    \E i \in DOMAIN products : products[i].name # specificPillowName

\* variant: only the accented spelling is recognised
isMattress_accentOnly(name) == includes(name, "COLCH" \o Atilde \o "O")

\* name.includes("COLCHÃO") || name.includes("COLCHAO")
isMattress(name) == includes(name, "COLCH" \o Atilde \o "O") \/ includes(name, "COLCHAO")

\* name.startsWith("BASE")
isBase(name) == startsWith(name, "BASE")

\* 2. one iteration of the mattress inventory loop
countMattress(counts, p) ==
    LET name == upperName[p.name]
    IN  IF ~isMattress(name) THEN counts
        ELSE IF includes(name, "CASAL")
             THEN [counts EXCEPT !.casalMattressCount = @ + p.quantity]
        ELSE IF includes(name, "QUEEN")
             THEN [counts EXCEPT !.queenMattressCount = @ + p.quantity]
        ELSE IF includes(name, "SUPER KING")
             THEN [counts EXCEPT !.superKingMattressCount = @ + p.quantity]
        ELSE counts

RECURSIVE mattressInventory(_, _)
\* the counts after the first k products of the inventory loop
mattressInventory(products, k) ==
    IF k = 0
    THEN [casalMattressCount |-> 0, queenMattressCount |-> 0,
          superKingMattressCount |-> 0]
    ELSE countMattress(mattressInventory(products, k - 1), products[k])

\* variant: the larger of the two quantities
quantityToDiscount_max(quantity, mattressCount) == Max(quantity, mattressCount)

\* Math.min(p.quantity, <class>MattressCount)
quantityToDiscount(quantity, mattressCount) == Min(quantity, mattressCount)

\* variant: the per-unit discount without its floor
discountPerItem_unclamped(price, targetPrice) == price - targetPrice

\* Math.max(0, p.price - targetPrice)
discountPerItem(price, targetPrice) == Max(0, price - targetPrice)

\* variant: the flag is set whenever units were matched
applied_wheneverMatched(perItem) == TRUE

\* if (discountPerItem > 0) applied = true
applied(perItem) == perItem > 0

\* the body shared by the three branches of the base rule, for the class
\* whose counter is the field pool
baseBranch(acc, p, pool, targetPrice) ==
    LET n == quantityToDiscount(p.quantity, acc[pool])
        d == discountPerItem(p.price, targetPrice)
    IN  IF n > 0
        THEN [acc EXCEPT !.totalDiscount = @ + d * n,
                         ![pool] = @ - n,
                         !.hasBaseDiscount = @ \/ applied(d)]
        ELSE acc

\* variant: the class is chosen by the name alone
baseRule_byNameOnly(acc, name, p) ==
    IF includes(name, "CASAL")
    THEN baseBranch(acc, p, "casalMattressCount", targetPriceCasal)
    ELSE IF includes(name, "QUEEN")
    THEN baseBranch(acc, p, "queenMattressCount", targetPriceQueen)
    ELSE IF includes(name, "SUPER KING")
    THEN baseBranch(acc, p, "superKingMattressCount", targetPriceSuperKing)
    ELSE acc

\* RULE: Base Discounts based on Mattresses (the if / else-if chain)
baseRule(acc, name, p) ==
    IF includes(name, "CASAL") /\ acc.casalMattressCount > 0
    THEN baseBranch(acc, p, "casalMattressCount", targetPriceCasal)
    ELSE IF includes(name, "QUEEN") /\ acc.queenMattressCount > 0
    THEN baseBranch(acc, p, "queenMattressCount", targetPriceQueen)
    ELSE IF includes(name, "SUPER KING") /\ acc.superKingMattressCount > 0
    THEN baseBranch(acc, p, "superKingMattressCount", targetPriceSuperKing)
    ELSE acc

\* RULE: the pillow is free if there is any other product in the cart
pillowRule(acc, name, p, hasOther) ==
    IF name = specificPillowName /\ hasOther
    THEN [acc EXCEPT !.totalDiscount = @ + p.price * p.quantity,
                     !.hasPillowDiscount = TRUE]
    ELSE acc

\* 3. one iteration of the rule loop
applyRules(acc, p, hasOther) ==
    LET name   == upperName[p.name]
        pillow == pillowRule(acc, name, p, hasOther)
    IN  IF isBase(name) THEN baseRule(pillow, name, p) ELSE pillow

RECURSIVE rulePass(_, _)
\* the locals of getBundleDetails after the first k products of the rule loop
rulePass(products, k) ==
    IF k = 0
    THEN LET counts == mattressInventory(products, Len(products))
         IN  [totalDiscount |-> 0, hasBaseDiscount |-> FALSE,
              hasPillowDiscount |-> FALSE,
              casalMattressCount |-> counts.casalMattressCount,
              queenMattressCount |-> counts.queenMattressCount,
              superKingMattressCount |-> counts.superKingMattressCount]
    ELSE applyRules(rulePass(products, k - 1), products[k],
                    hasAnyOtherProduct(products))

\* variant: the two single-rule labels exchanged
selectLabel_swapped(hasBaseDiscount, hasPillowDiscount) ==
    IF hasBaseDiscount /\ hasPillowDiscount THEN labelComboGift
    ELSE IF hasBaseDiscount THEN labelGift
    ELSE IF hasPillowDiscount THEN labelCombo
    ELSE labelFallback

\* Logic for Label
selectLabel(hasBaseDiscount, hasPillowDiscount) ==
    IF hasBaseDiscount /\ hasPillowDiscount THEN labelComboGift
    ELSE IF hasBaseDiscount THEN labelCombo
    ELSE IF hasPillowDiscount THEN labelGift
    ELSE labelFallback

getBundleDetails(products) ==
    LET end == rulePass(products, Len(products))
    IN  [totalDiscount |-> end.totalDiscount,
         label |-> selectLabel(end.hasBaseDiscount, end.hasPillowDiscount)]

(* -------------------------- total calculations ------------------------- *)
RECURSIVE reduceSubtotal(_, _)
\* products.reduce((acc, curr) => acc + curr.price * curr.quantity, 0)
reduceSubtotal(products, k) ==
    IF k = 0 THEN 0
    ELSE reduceSubtotal(products, k - 1) + products[k].price * products[k].quantity

\* manualDiscount of App, manualDiscountAmount of createPDFDoc
manualDiscount(subtotal, discountType, discountValue) ==
    IF discountType = "fixed" THEN discountValue
    ELSE (subtotal * discountValue) \div 100

\* variant: the total without its floor
totalValue_unclamped(subtotal, totalDiscount) == subtotal - totalDiscount

\* Math.max(0, subtotal - totalDiscount)
totalValue(subtotal, totalDiscount) == Max(0, subtotal - totalDiscount)

\* variant: the percentage taken of the subtotal left after the bundle discount
AppTotals_percentAfterBundle(d) ==
    LET subtotal      == reduceSubtotal(d.products, Len(d.products))
        bundleDetails == getBundleDetails(d.products)
        manual        == manualDiscount(subtotal - bundleDetails.totalDiscount,
                                        d.discountType, d.discountValue)
        totalDiscount == bundleDetails.totalDiscount + manual
    IN  [subtotal |-> subtotal,
         bundleDiscount |-> bundleDetails.totalDiscount,
         bundleDiscountLabel |-> bundleDetails.label,
         manualDiscount |-> manual,
         totalDiscount |-> totalDiscount,
         totalValue |-> totalValue(subtotal, totalDiscount)]

\* the values App computes on a render
AppTotals(d) ==
    LET subtotal      == reduceSubtotal(d.products, Len(d.products))
        bundleDetails == getBundleDetails(d.products)
        manual        == manualDiscount(subtotal, d.discountType, d.discountValue)
        totalDiscount == bundleDetails.totalDiscount + manual
    IN  [subtotal |-> subtotal,
         bundleDiscount |-> bundleDetails.totalDiscount,
         bundleDiscountLabel |-> bundleDetails.label,
         manualDiscount |-> manual,
         totalDiscount |-> totalDiscount,
         totalValue |-> totalValue(subtotal, totalDiscount)]

\* the ReceiptData handed to the PDF service
getDataForExport(d, v) ==
    [k \in DOMAIN d \cup {"bundleDiscount", "bundleLabel"} |->
        CASE k = "bundleDiscount" -> v.bundleDiscount
          [] k = "bundleLabel"    -> v.bundleDiscountLabel
          [] OTHER                -> d[k]]

\* data.bundleDiscount || 0
bundleDiscountAmount(e) == e.bundleDiscount

\* Math.max(0, subtotal - manualDiscountAmount - bundleDiscountAmount)
finalTotal(subtotal, manualDiscountAmount, bundleAmount) ==
    Max(0, subtotal - manualDiscountAmount - bundleAmount)

\* the totals createPDFDoc prints in its summary section
createPDFDocTotals(e) ==
    LET subtotal == reduceSubtotal(e.products, Len(e.products))
        manual   == manualDiscount(subtotal, e.discountType, e.discountValue)
        bundle   == bundleDiscountAmount(e)
    IN  [subtotal |-> subtotal,
         manualDiscountAmount |-> manual,
         bundleDiscountAmount |-> bundle,
         finalTotal |-> finalTotal(subtotal, manual, bundle)]

(* ----------------------------- state machine --------------------------- *)
None == [none |-> TRUE]

\* a receipt (cart and discount config) is on screen, nothing rendered yet
Init ==
    /\ data \in { [products |-> c, discountType |-> g.discountType,
                    discountValue |-> g.discountValue] :
                    c \in Carts, g \in DiscountConfigs }
    /\ pc = "input"
    /\ view = None
    /\ pdf = None
    /\ doc = None
    /\ ui = None
    /\ req = None

\* App renders: subtotal, bundle details, manual discount and total
Render ==
    /\ pc = "input"
    /\ view' = AppTotals(data)
    /\ pc' = "rendered"
    /\ UNCHANGED <<data, pdf, doc, ui, req>>

\* handleGeneratePDF: createPDFDoc on getDataForExport()
handleGeneratePDF ==
    /\ pc = "rendered"
    /\ pdf' = createPDFDocTotals(getDataForExport(data, view))
    /\ pc' = "exported"
    /\ UNCHANGED <<data, view, doc, ui, req>>

Next == Render \/ handleGeneratePDF

Spec == Init /\ [][Next]_vars

(* ------------------------------ properties ----------------------------- *)
cart == data.products

RECURSIVE SumOfLines(_)
\* the sum of price * quantity over a cart, taken from the front
SumOfLines(products) ==
    IF products = <<>> THEN 0
    ELSE Head(products).price * Head(products).quantity + SumOfLines(Tail(products))

Reverse(products) ==
    [i \in 1..Len(products) |-> products[Len(products) + 1 - i]]

\* what each catalogue name is expected to be for the bundle rules
Expected ==
    [n \in { PRODUCT_CATALOG[i].name : i \in DOMAIN PRODUCT_CATALOG } |->
        CASE n = specificPillowName   -> [kind |-> "pillow",   class |-> "NONE"]
          [] n = "Travesseiro Flocos Conforto 20cm 60x40 Branco"
                                      -> [kind |-> "pillow",   class |-> "NONE"]
          [] n = COLCHAO_CASAL      -> [kind |-> "mattress", class |-> "CASAL"]
          [] n = "Colchao Queen"      -> [kind |-> "mattress", class |-> "QUEEN"]
          [] n = COLCHAO_SUPER_KING -> [kind |-> "mattress", class |-> "SUPER KING"]
          [] n = COLCHAO_KING       -> [kind |-> "mattress", class |-> "NONE"]
          [] n = "BASE CASAL"         -> [kind |-> "base",     class |-> "CASAL"]
          [] n = "BASE CASAL PREMIUM" -> [kind |-> "base",     class |-> "CASAL"]
          [] n = "Base Box Queen"     -> [kind |-> "base",     class |-> "QUEEN"]
          [] n = "BASE SUPER KING"    -> [kind |-> "base",     class |-> "SUPER KING"]
          [] n = "BASE KING"          -> [kind |-> "base",     class |-> "NONE"]
          [] OTHER                    -> [kind |-> "other",    class |-> "NONE"]]

Classes == {"CASAL", "QUEEN", "SUPER KING"}

PoolOf(class) ==
    CASE class = "CASAL"      -> "casalMattressCount"
      [] class = "QUEEN"      -> "queenMattressCount"
      [] class = "SUPER KING" -> "superKingMattressCount"

TargetOf(class) ==
    CASE class = "CASAL"      -> 250
      [] class = "QUEEN"      -> 300
      [] class = "SUPER KING" -> 350

Kind(k)    == Expected[cart[k].name].kind
ClassOf(k) == Expected[cart[k].name].class

RECURSIVE RuleTraceTo(_)
\* the locals of the rule loop after 0, 1, ..., k line items (index j + 1
\* holds the locals after j line items)
RuleTraceTo(k) ==
    IF k = 0 THEN << rulePass(cart, 0) >>
    ELSE LET t == RuleTraceTo(k - 1)
         IN  Append(t, applyRules(t[k], cart[k], hasAnyOtherProduct(cart)))

RuleTrace == RuleTraceTo(Len(cart))

RECURSIVE InventoryTraceTo(_)
\* the mattress counts after 0, 1, ..., k line items of the inventory loop
InventoryTraceTo(k) ==
    IF k = 0 THEN << mattressInventory(cart, 0) >>
    ELSE LET t == InventoryTraceTo(k - 1)
         IN  Append(t, countMattress(t[k], cart[k]))

InventoryTrace == InventoryTraceTo(Len(cart))

\* the locals of the rule loop before and after the k-th line item
Before(tr, k) == tr[k]
After(tr, k)  == tr[k + 1]

\* what the k-th line item adds to the automatic discount
Contribution(tr, k) == After(tr, k).totalDiscount - Before(tr, k).totalDiscount

\* the mattresses of its class the k-th line item takes out of the pool
Consumed(tr, k) ==
    IF ClassOf(k) = "NONE" THEN 0
    ELSE Before(tr, k)[PoolOf(ClassOf(k))] - After(tr, k)[PoolOf(ClassOf(k))]

OtherNameInCart == \E i \in DOMAIN cart : cart[i].name # specificPillowName

\* C1: the total is max(0, subtotal - automaticDiscount - manualDiscount),
\* with subtotal the sum of price * quantity over the cart, hence never
\* negative; in the app and in the totals createPDFDoc prints.
C1_TotalIsClampedDifference ==
    /\ pc \in {"rendered", "exported"} =>
          /\ view.subtotal = SumOfLines(cart)
          /\ view.totalValue =
                Max(0, view.subtotal - view.bundleDiscount - view.manualDiscount)
          /\ view.totalValue >= 0
    /\ pc = "exported" =>
          /\ pdf.subtotal = SumOfLines(cart)
          /\ pdf.bundleDiscountAmount = view.bundleDiscount
          /\ pdf.finalTotal =
                Max(0, pdf.subtotal - pdf.bundleDiscountAmount - pdf.manualDiscountAmount)
          /\ pdf.finalTotal >= 0

\* a fixed manual discount alone exceeds a positive subtotal and both totals are 0
C1_Witness ==
    /\ pc = "exported"
    /\ data.discountType = "fixed"
    /\ view.subtotal > 0
    /\ view.manualDiscount > view.subtotal
    /\ view.totalValue = 0
    /\ pdf.finalTotal = 0

\* C2: a percentage manual discount is subtotal * value / 100 of the
\* undiscounted subtotal: the cart in reverse order has the same subtotal,
\* possibly another automatic discount, and the same manual discount.
C2_PercentageOfSubtotal ==
    /\ (pc \in {"rendered", "exported"} /\ data.discountType = "percentage") =>
          /\ view.manualDiscount * 100 = SumOfLines(cart) * data.discountValue
          /\ AppTotals([data EXCEPT !.products = Reverse(cart)]).manualDiscount
                = view.manualDiscount
    /\ (pc = "exported" /\ data.discountType = "percentage") =>
          pdf.manualDiscountAmount * 100 = SumOfLines(cart) * data.discountValue

\* a percentage discount on a cart whose reverse has another automatic discount
C2_Witness ==
    /\ pc = "exported"
    /\ data.discountType = "percentage"
    /\ view.bundleDiscount > 0
    /\ view.manualDiscount > 0
    /\ AppTotals([data EXCEPT !.products = Reverse(cart)]).bundleDiscount
          # view.bundleDiscount
    /\ pdf.manualDiscountAmount = view.manualDiscount

\* C3: a pillow line item adds its full price * quantity exactly when some
\* line item's name differs from the pillow's canonical name, and adds
\* nothing otherwise; a cart of canonical pillows only gets no discount and
\* the gift rule does not fire.
C3_GiftPillowRule ==
    LET tr == RuleTrace IN
    pc = "rendered" =>
      /\ \A k \in DOMAIN cart :
            Kind(k) = "pillow" =>
              IF OtherNameInCart
              THEN /\ Contribution(tr, k) = cart[k].price * cart[k].quantity
                   /\ After(tr, k).hasPillowDiscount
              ELSE /\ Contribution(tr, k) = 0
                   /\ ~After(tr, k).hasPillowDiscount
      /\ (\A i \in DOMAIN cart : cart[i].name = specificPillowName) =>
            /\ view.bundleDiscount = 0
            /\ view.bundleDiscountLabel = labelFallback

\* two pillow lines and nothing else: no discount
C3_Witness ==
    /\ pc = "rendered"
    /\ Len(cart) = 2
    /\ \A i \in DOMAIN cart : cart[i].name = specificPillowName
    /\ view.bundleDiscount = 0

ComboLabels == {labelCombo, labelComboGift}

\* the spec's example cart: mattress CASAL x2, base CASAL x1 at 400
ExampleCart == << Product(COLCHAO_CASAL, 2), Product("BASE CASAL", 1) >>

\* C4 (as stated): a base item of class C with remaining pool r > 0 adds
\* n * max(0, price - target(C)) with n = min(quantity, r) and takes exactly
\* n out of the pool of C; a base item whose class pool is 0 adds nothing;
\* the example cart gives 150 and leaves a pool of 1.
C4_ComboRuleAsStated ==
    LET tr == RuleTrace IN
    pc = "rendered" =>
      /\ \A k \in DOMAIN cart :
            Kind(k) = "base" =>
              IF ClassOf(k) # "NONE" /\ Before(tr, k)[PoolOf(ClassOf(k))] > 0
              THEN LET r == Before(tr, k)[PoolOf(ClassOf(k))]
                       n == Min(cart[k].quantity, r)
                   IN  /\ Contribution(tr, k) =
                             n * Max(0, cart[k].price - TargetOf(ClassOf(k)))
                       /\ After(tr, k)[PoolOf(ClassOf(k))] = r - n
              ELSE Contribution(tr, k) = 0
      /\ cart = ExampleCart =>
            /\ view.bundleDiscount = 150
            /\ After(tr, 2).casalMattressCount = 1

\* C5: with non-negative prices and positive quantities the automatic
\* discount is >= 0, and a base item priced at or below the target of its
\* class adds exactly 0.
C5_DiscountNeverNegative ==
    LET tr == RuleTrace IN
    (/\ pc = "rendered"
     /\ \A i \in DOMAIN cart : cart[i].price >= 0 /\ cart[i].quantity > 0) =>
      /\ view.bundleDiscount >= 0
      /\ \A k \in DOMAIN cart : Contribution(tr, k) >= 0
      /\ \A k \in DOMAIN cart :
            (/\ Kind(k) = "base"
             /\ ClassOf(k) # "NONE"
             /\ cart[k].price <= TargetOf(ClassOf(k))) => Contribution(tr, k) = 0

\* a base priced below its target is matched with a mattress and adds 0
C5_Witness ==
    LET tr == RuleTrace IN
    /\ pc = "rendered"
    /\ \A i \in DOMAIN cart : cart[i].price >= 0 /\ cart[i].quantity > 0
    /\ \E k \in DOMAIN cart :
          /\ Kind(k) = "base"
          /\ ClassOf(k) # "NONE"
          /\ cart[k].price < TargetOf(ClassOf(k))
          /\ Consumed(tr, k) > 0
          /\ Contribution(tr, k) = 0

\* the same three-line cart with its two base items in either order
OrderA == << Product(COLCHAO_CASAL, 2), Product("BASE CASAL", 1),
             Product("BASE CASAL PREMIUM", 2) >>
OrderB == << Product(COLCHAO_CASAL, 2), Product("BASE CASAL PREMIUM", 2),
             Product("BASE CASAL", 1) >>

\* C6 (as stated): the pool of a class is shared by its base items and
\* consumed in cart order, the i-th taking n_i = min(quantity_i, what the
\* earlier ones left of M); the pool is never negative; the discounted
\* units of a class never exceed M; reordering base items of one class with
\* different prices can change the amount.
C6_GreedyPoolAsStated ==
    LET tr == RuleTrace IN
    pc = "rendered" =>
      /\ \A k \in DOMAIN cart :
            (Kind(k) = "base" /\ ClassOf(k) # "NONE") =>
              Consumed(tr, k) = Min(cart[k].quantity, Before(tr, k)[PoolOf(ClassOf(k))])
      /\ \A k \in 0..Len(cart) : \A c \in Classes : tr[k + 1][PoolOf(c)] >= 0
      /\ \A c \in Classes :
            tr[1][PoolOf(c)] - tr[Len(cart) + 1][PoolOf(c)] <= tr[1][PoolOf(c)]
      /\ getBundleDetails(OrderA).totalDiscount # getBundleDetails(OrderB).totalDiscount

\* some base line item got a positive discount
ComboFired(tr) == \E k \in DOMAIN cart : Kind(k) = "base" /\ Contribution(tr, k) > 0

\* some pillow line item was given away
GiftFired == \E k \in DOMAIN cart : Kind(k) = "pillow" /\ OtherNameInCart

\* C7: the label is the combo + gift label exactly when both rules fired,
\* the combo label exactly when only the combo rule fired, the gift label
\* exactly when only the gift rule fired, the fallback label otherwise.
C7_LabelSelection ==
    LET tr == RuleTrace IN
    pc = "rendered" =>
      /\ (view.bundleDiscountLabel = labelComboGift) <=> (ComboFired(tr) /\ GiftFired)
      /\ (view.bundleDiscountLabel = labelCombo)     <=> (ComboFired(tr) /\ ~GiftFired)
      /\ (view.bundleDiscountLabel = labelGift)      <=> (~ComboFired(tr) /\ GiftFired)
      /\ (view.bundleDiscountLabel = labelFallback)  <=> (~ComboFired(tr) /\ ~GiftFired)

\* both rules fired on one cart
C7_Witness ==
    LET tr == RuleTrace IN
    /\ pc = "rendered"
    /\ ComboFired(tr)
    /\ GiftFired
    /\ view.bundleDiscountLabel = labelComboGift

\* a base line item matched with mattresses of its class and priced at or
\* below the class target
MatchedAtOrBelowTarget(tr, k) ==
    /\ Kind(k) = "base"
    /\ ClassOf(k) # "NONE"
    /\ Consumed(tr, k) > 0
    /\ cart[k].price <= TargetOf(ClassOf(k))

\* a base line item matched with mattresses of its class and priced above it
MatchedAboveTarget(tr, k) ==
    /\ Kind(k) = "base"
    /\ ClassOf(k) # "NONE"
    /\ Consumed(tr, k) > 0
    /\ cart[k].price > TargetOf(ClassOf(k))

\* C8 (as stated): a base item matched with n > 0 mattresses and priced at
\* or below the target makes the label a combo label while adding 0.
C8_MatchedCheapBaseLabelsAsStated ==
    LET tr == RuleTrace IN
    pc = "rendered" =>
      \A k \in DOMAIN cart :
        MatchedAtOrBelowTarget(tr, k) =>
          /\ view.bundleDiscountLabel \in ComboLabels
          /\ Contribution(tr, k) = 0

\* C8 (amended): a base item matched with n > 0 mattresses and priced at or
\* below the target adds 0 and leaves the combo flag as it was; the label is
\* a combo label exactly when some matched base item is priced above its
\* target.
C8_MatchedCheapBaseDoesNotLabel ==
    LET tr == RuleTrace IN
    pc = "rendered" =>
      /\ \A k \in DOMAIN cart :
            MatchedAtOrBelowTarget(tr, k) =>
              /\ Contribution(tr, k) = 0
              /\ After(tr, k).hasBaseDiscount = Before(tr, k).hasBaseDiscount
      /\ (view.bundleDiscountLabel \in ComboLabels)
            <=> (\E k \in DOMAIN cart : MatchedAboveTarget(tr, k))

\* a matched base priced below its target, and the label is no combo label
C8_Witness ==
    LET tr == RuleTrace IN
    /\ pc = "rendered"
    /\ \E k \in DOMAIN cart : MatchedAtOrBelowTarget(tr, k)
    /\ view.bundleDiscountLabel \notin ComboLabels

\* C9: names are matched on their upper-cased form: a mattress contains
\* COLCHÃO or COLCHAO and is counted in the pool of the size token it
\* contains, a base starts with BASE and draws from the pool of the size
\* token it contains, and a bare KING is no size class.
C9_NameMatching ==
    LET tr  == RuleTrace
        inv == InventoryTrace
    IN
    pc = "rendered" =>
      \A k \in DOMAIN cart :
        LET counted == [c \in Classes |-> inv[k + 1][PoolOf(c)] - inv[k][PoolOf(c)]]
            drawn   == [c \in Classes |->
                          Before(tr, k)[PoolOf(c)] - After(tr, k)[PoolOf(c)]]
        IN  /\ \A c \in Classes :
                  counted[c] = IF Kind(k) = "mattress" /\ ClassOf(k) = c
                               THEN cart[k].quantity ELSE 0
            /\ \A c \in Classes :
                  drawn[c] # 0 => (Kind(k) = "base" /\ ClassOf(k) = c)
            /\ (/\ Kind(k) = "base"
                 /\ ClassOf(k) # "NONE"
                 /\ cart[k].quantity > 0
                 /\ Before(tr, k)[PoolOf(ClassOf(k))] > 0) => drawn[ClassOf(k)] > 0

\* a lower-case, unaccented mattress name is counted and a mixed-case base
\* draws from its pool, while a bare KING mattress and base stay unmatched
C9_Witness ==
    LET tr == RuleTrace IN
    /\ pc = "rendered"
    /\ \E j, k \in DOMAIN cart :
          /\ cart[j].name = "Colchao Queen"
          /\ cart[k].name = "Base Box Queen"
          /\ Consumed(tr, k) = 1
    /\ \E k \in DOMAIN cart : cart[k].name \in {COLCHAO_KING, "BASE KING"}

(***************************************************************************)
(* createPDFDoc: the layout of the receipt document.                       *)
(*                                                                         *)
(* Lengths are counted in hundredths of a millimetre and font sizes in     *)
(* hundredths of a point, so 10 mm is 1000 and 9 pt is 900.  jsPDF keeps   *)
(* them as floating-point numbers: every quotient it stores is rounded to  *)
(* the nearest representable value, here to the nearest point of the grid  *)
(* (RoundDiv).  Sums and differences are exact.                            *)
(* Text is measured as doc.getTextWidth does, unit width * font size, with *)
(* one advance width for every character.                                  *)
(***************************************************************************)

(* ------------------------------ bounds --------------------------------- *)
\* most line items of a receipt handed to createPDFDoc
MaxRows == 40

(* ------------------------------ settings ------------------------------- *)
margin       == 1000
pageWidth    == 21000
contentWidth == pageWidth - (margin * 2)
pageHeight   == 29700
rowHeight    == 1000

\* a / b rounded to the nearest integer (b > 0)
RoundDiv(a, b) == ((2 * a) + b) \div (2 * b)

\* a missing field (null or undefined in the JSON the receipt was built from)
undefined == "<undefined>"

\* the value is falsy: value || '-' takes the right-hand side
Falsy(value) == value = "" \/ value = undefined

\* value || alt
OrElse(value, alt) == IF Falsy(value) THEN alt ELSE value

RECURSIVE Repeat(_, _)
\* the text of n copies of s
Repeat(s, n) ==
    IF n = 0 THEN ""
    ELSE IF n % 2 = 0 THEN LET half == Repeat(s, n \div 2) IN half \o half
    ELSE s \o Repeat(s, n - 1)

\* the advance width of one character at 9 pt
CharWidth9 == 200

\* doc.getTextWidth(text) at the font size set
getTextWidth(text, fontSize) == RoundDiv(Len(text) * CharWidth9 * fontSize, 900)

\* doc.splitTextToSize(text, maxWidth).length at the font size set
splitTextToSize(text, maxWidth, fontSize) ==
    LET w == getTextWidth(text, fontSize)
    IN  IF w <= maxWidth THEN 1 ELSE (w + maxWidth - 1) \div maxWidth

(* ---------------------------- the document ----------------------------- *)
\* one entry of the page log: the table header bands and item rows of a page
BlankPage == [bands |-> 0, rows |-> 0, bandBottom |-> 0, rowTop |-> pageHeight]

\* new jsPDF() with the cursor at 10 mm (rowsHeight adds up the heights of the
\* item rows drawn, imageFailed remembers that an image could not be made)
NewDoc ==
    [y |-> 1000, pages |-> 1, broke |-> FALSE, emitted |-> << >>,
     cells |-> << >>, log |-> << BlankPage >>, i |-> 0, subtotal |-> 0,
     rowsHeight |-> 0, imageFailed |-> FALSE, threw |-> FALSE]

\* a drawing call: the primitive lands on the last page added
emit(st, kind, top, bottom) ==
    LET pg  == st.pages
        old == st.log[pg]
        new == CASE kind = "band" ->
                      [old EXCEPT !.bands = @ + 1,
                                  !.bandBottom = IF bottom > @ THEN bottom ELSE @]
                 [] kind = "row" ->
                      [old EXCEPT !.rows = @ + 1,
                                  !.rowTop = IF top < @ THEN top ELSE @]
                 [] OTHER -> old
    IN  [st EXCEPT !.emitted = Append(@, [kind |-> kind, page |-> pg,
                                          top |-> top, bottom |-> bottom]),
                   !.log[pg] = new]

\* the primitives of a new step replace those of the step before
beginStep(st) == [st EXCEPT !.emitted = << >>, !.cells = << >>, !.broke = FALSE]

checkPageBreak_never(st, heightNeeded) == [st EXCEPT !.broke = FALSE]

\* checkPageBreak: add a page and reset the cursor when the height does not fit
checkPageBreak(st, heightNeeded) ==
    IF st.y + heightNeeded > pageHeight - margin
    THEN [st EXCEPT !.pages = @ + 1, !.log = Append(@, BlankPage),
                    !.y = margin + 1000, !.broke = TRUE]
    ELSE [st EXCEPT !.broke = FALSE]

(* -------------------------- client data grid --------------------------- *)
padding         == 400
defaultFontSize == 900
minFontSize     == 500
ellipsis        == "..."

\* (maxWidth / textWidth) * fontSize, floored at the minimum size
scaleDown(maxWidth, textWidth, fontSize) ==
    LET scaled == RoundDiv(maxWidth * fontSize, textWidth)
    IN  IF scaled < minFontSize THEN minFontSize ELSE scaled

truncate_once(displayValue, fontSize, maxWidth) ==
    IF Len(displayValue) > 0
    THEN SubSeq(displayValue, 1, Len(displayValue) - 1)
    ELSE displayValue

RECURSIVE truncate(_, _, _)
\* the loop that removes characters from the end until the value and the
\* ellipsis fit or nothing is left
truncate(displayValue, fontSize, maxWidth) ==
    IF getTextWidth(displayValue \o ellipsis, fontSize) > maxWidth
       /\ Len(displayValue) > 0
    THEN truncate(SubSeq(displayValue, 1, Len(displayValue) - 1),
                  fontSize, maxWidth)
    ELSE displayValue

\* drawCell: the value as drawn, with its font size and measured width
drawCell(label, value, x, w) ==
    LET displayValue == OrElse(value, "-")
        maxWidth     == w - padding
        textWidth    == getTextWidth(displayValue, defaultFontSize)
        fontSize     == IF textWidth > maxWidth
                        THEN scaleDown(maxWidth, textWidth, defaultFontSize)
                        ELSE defaultFontSize
        scaledWidth  == getTextWidth(displayValue, fontSize)
        drawn        == IF scaledWidth > maxWidth
                        THEN truncate(displayValue, fontSize, maxWidth) \o ellipsis
                        ELSE displayValue
    IN  [label |-> label, value |-> value, x |-> x, w |-> w,
         maxWidth |-> maxWidth, fontSize |-> fontSize, text |-> drawn,
         textWidth |-> getTextWidth(drawn, fontSize)]

\* how wide the content of a field wants to be, at least the field's minimum
neededWidth(f) ==
    LET textW    == getTextWidth(OrElse(f.text, "-"), 900)
        labelW   == getTextWidth(toUpperCase(f.label), 600)
        contentW == Max(textW, labelW) + 600
    IN  Max(contentW, f.min)

RECURSIVE sumWidths(_, _)
\* neededWidths.reduce((a, b) => a + b, 0)
sumWidths(ws, k) == IF k = 0 THEN 0 ELSE sumWidths(ws, k - 1) + ws[k]

finalWidths_equal(neededWidths) ==
    [i \in 1..Len(neededWidths) |-> RoundDiv(contentWidth, Len(neededWidths))]

\* finalWidths: equal shares when nothing is needed, else proportional shares
finalWidths(neededWidths) ==
    LET n           == Len(neededWidths)
        totalNeeded == sumWidths(neededWidths, n)
    IN  IF totalNeeded = 0
        THEN [i \in 1..n |-> RoundDiv(contentWidth, n)]
        ELSE [i \in 1..n |-> RoundDiv(neededWidths[i] * contentWidth, totalNeeded)]

fieldWidth_proportional(i, n, fw, currentX) == fw[i]

\* the width of field i of n: the last field takes the space that remains
fieldWidth(i, n, fw, currentX) ==
    IF i = n THEN (margin + contentWidth) - currentX ELSE fw[i]

RECURSIVE drawFields(_, _, _, _)
\* fields.forEach: the cells of fields k.. drawn from currentX on
drawFields(fields, fw, k, currentX) ==
    IF k > Len(fields) THEN << >>
    ELSE LET w == fieldWidth(k, Len(fields), fw, currentX)
         IN  << drawCell(fields[k].label, fields[k].text, currentX, w) >>
             \o drawFields(fields, fw, k + 1, currentX + w)

\* drawDynamicRow
drawDynamicRow(st0, fields) ==
    LET st == checkPageBreak(beginStep(st0), rowHeight)
        nw == [i \in 1..Len(fields) |-> neededWidth(fields[i])]
        cs == drawFields(fields, finalWidths(nw), 1, margin)
        s1 == emit(st, "cells", st.y, st.y + rowHeight)
    IN  [s1 EXCEPT !.cells = cs, !.y = @ + rowHeight]

\* new Date().toLocaleDateString('pt-BR'): the day the document is issued
dateStr == "04/11/2026"

\* new Date(date + 'T12:00:00').toLocaleDateString('pt-BR') of a YYYY-MM-DD date
toLocaleDateString(date) ==
    IF Len(date) = 10
    THEN SubSeq(date, 9, 10) \o "/" \o SubSeq(date, 6, 7) \o "/" \o SubSeq(date, 1, 4)
    ELSE "Invalid Date"

\* data.date ? ... : dateStr
dateVal(e) == IF Falsy(e.date) THEN dateStr ELSE toLocaleDateString(e.date)

\* [data.contact1, data.contact2].filter(Boolean).join(' / ')
contactsText(e) ==
    IF Falsy(e.contact1) THEN OrElse(e.contact2, "")
    ELSE IF Falsy(e.contact2) THEN e.contact1
    ELSE e.contact1 \o " / " \o e.contact2

\* ROW 1: date, client, CPF
row1Fields(e) == <<
    [label |-> "DATA DO PEDIDO", text |-> dateVal(e),        min |-> 3000],
    [label |-> "CLIENTE",        text |-> e.name,            min |-> 6000],
    [label |-> "CPF/CNPJ",       text |-> OrElse(e.cpf, ""), min |-> 3500] >>

\* ROW 2: address
row2Fields(e) == <<
    [label |-> "RUA",         text |-> OrElse(e.street, ""),       min |-> 4000],
    [label |-> "No",          text |-> OrElse(e.number, ""),       min |-> 1200],
    [label |-> "COMPLEMENTO", text |-> OrElse(e.complement, ""),   min |-> 1000],
    [label |-> "BAIRRO",      text |-> OrElse(e.neighborhood, ""), min |-> 2500],
    [label |-> "CIDADE",      text |-> OrElse(e.city, ""),         min |-> 2500] >>

\* ROW 3: contacts
row3Fields(e) == <<
    [label |-> "E-MAIL",   text |-> OrElse(e.email, ""), min |-> 6000],
    [label |-> "CONTATOS", text |-> contactsText(e),     min |-> 6000] >>

(* ------------------------- header and title ---------------------------- *)
\* the QR code of the header: a failure of QRCode.toDataURL or addImage is
\* caught and ignored
drawQR(st, ok) ==
    IF ok THEN emit(st, "image", 700, 700 + 2500)
    ELSE [st EXCEPT !.imageFailed = TRUE]

\* 1. HEADER SECTION
drawHeader(st0, qrOk) ==
    LET st == emit(beginStep(st0), "pageHeader", 0, 4000)
    IN  [drawQR(st, qrOk) EXCEPT !.y = 4800]

\* 2. TITLE
drawTitle(st0) ==
    LET st == emit(beginStep(st0), "title", st0.y, st0.y + 500)
    IN  [st EXCEPT !.y = @ + 500 + 600]

(* ---------------------------- products table --------------------------- *)
\* the header band of the table
drawBand(st) == [emit(st, "band", st.y, st.y + 600) EXCEPT !.y = @ + 600]

\* 4. PRODUCTS TABLE: the header band of the first page
drawTableHeader(st0) ==
    drawBand(checkPageBreak([beginStep(st0) EXCEPT !.y = @ + 600], 2000))

redrawHeader_skip(st) == st

\* the header band redrawn on a page added for a row
redrawHeader(st) == drawBand(st)

\* the height of the row of a line item
rowH(p) ==
    LET lines == splitTextToSize(p.name, 10000 - 400, 800)
        h     == 600 + (lines * 350) + (IF p.warrantyTime # "" THEN 350 ELSE 0)
    IN  IF h < 800 THEN 800 ELSE h

drawBarcode_uncaught(st, ok) ==
    IF ok THEN emit(st, "image", st.y + 500, st.y + 500 + 350)
    ELSE [st EXCEPT !.imageFailed = TRUE, !.threw = TRUE]

\* the barcode of a row: a failure of JsBarcode or addImage is caught and
\* ignored
drawBarcode(st, ok) ==
    IF ok THEN emit(st, "image", st.y + 500, st.y + 500 + 350)
    ELSE [st EXCEPT !.imageFailed = TRUE]

drawItemRow_skipOnBreak(st0, p, barcodeOk) ==
    LET h  == rowH(p)
        s1 == checkPageBreak(
                 [beginStep(st0) EXCEPT !.subtotal = @ + (p.price * p.quantity)], h)
        s2 == redrawHeader(s1)
        s3 == emit(s1, "row", s1.y, s1.y + h)
    IN  IF s1.broke
        THEN [s2 EXCEPT !.i = @ + 1]
        ELSE [s3 EXCEPT !.y = @ + h, !.i = @ + 1, !.rowsHeight = @ + h]

\* one iteration of data.products.forEach
drawItemRow(st0, p, barcodeOk) ==
    LET h  == rowH(p)
        s1 == checkPageBreak(
                 [beginStep(st0) EXCEPT !.subtotal = @ + (p.price * p.quantity)], h)
        s2 == IF s1.broke THEN redrawHeader(s1) ELSE s1
        s3 == emit(s2, "row", s2.y, s2.y + h)
        s4 == emit(s3, "text", s3.y, s3.y + 400)
        s5 == IF p.code # "" THEN drawBarcode(s4, barcodeOk) ELSE s4
        s6 == emit(s5, "text", s5.y,
                   IF p.warrantyTime # "" THEN s5.y + h - 350 ELSE s5.y + h - 550)
    IN  IF s5.threw THEN s5
        ELSE [s6 EXCEPT !.y = @ + h, !.i = @ + 1, !.rowsHeight = @ + h]

\* the table of a receipt without line items
drawNoItems(st0) ==
    LET st == emit(beginStep(st0), "text", st0.y, st0.y + 1000)
    IN  [st EXCEPT !.y = @ + 2000]

(* ------------------------------- summary ------------------------------- *)
leftBoxH == 2100

\* value.toUpperCase() || '-' of the summary box
summaryCell(label, value) ==
    [label |-> label, value |-> value, text |-> OrElse(toUpperCase(value), "-")]

\* 5. SUMMARY SECTION
drawSummary(st0, e) ==
    LET st     == checkPageBreak([beginStep(st0) EXCEPT !.y = @ + 400], 2500)
        start  == st.y
        manual == manualDiscount(st.subtotal, e.discountType, e.discountValue)
        bundle == bundleDiscountAmount(e)
        n      == 1 + (IF bundle > 0 THEN 1 ELSE 0) + (IF manual > 0 THEN 1 ELSE 0)
        rectY  == start + (n * 500) + 100 - 500
        totalY == start + (n * 500) + 100 + 150
        s1     == emit(st, "box", start, start + leftBoxH)
        s2     == emit(s1, "totals", start, Max(rectY + 1000, totalY))
    IN  IF undefined \in {e.saleCode, e.salesperson, e.paymentMethod}
        THEN [s1 EXCEPT !.threw = TRUE]
        ELSE [s2 EXCEPT !.cells = << summaryCell("CODIGO DA VENDA", e.saleCode),
                                     summaryCell("VENDEDOR", e.salesperson),
                                     summaryCell("FORMA DE PAGAMENTO",
                                                 e.paymentMethod) >>,
                        !.y = Max(start + leftBoxH, totalY + 500)]

(* ----------------------- observation and policy ------------------------ *)
obsText    == Repeat("x", 101)
textArrep  == Repeat("x", 167)
textFisica == Repeat("x", 157)

\* 6. OBSERVATION
drawObservation(st0) ==
    LET lines        == splitTextToSize(obsText, contentWidth - 1000, 800)
        obsBoxHeight == 1000 + (lines * 350)
        st == checkPageBreak([beginStep(st0) EXCEPT !.y = @ + 400],
                             obsBoxHeight + 500)
        s1 == emit(st, "box", st.y, st.y + obsBoxHeight)
        s2 == emit(s1, "text", s1.y + 500, s1.y + 900 + ((lines - 1) * 350))
    IN  [s2 EXCEPT !.y = @ + obsBoxHeight + 400]

policyHeight == 5800

\* 7. RETURN POLICY
drawPolicy(st0) ==
    LET st      == checkPageBreak(beginStep(st0), policyHeight + 1000)
        a       == splitTextToSize(textArrep, contentWidth - 600, 700)
        b       == splitTextToSize(textFisica, contentWidth - 600, 700)
        policyY == st.y + 500 + 800 + 350 + (a * 300) + 500 + 350
                        + (b * 300) + 200 + 350 + 350
        s1      == emit(st, "box", st.y, st.y + policyHeight)
        s2      == emit(s1, "text", s1.y + 500, policyY)
    IN  [s2 EXCEPT !.y = @ + policyHeight]

(* -------------------------------- footer ------------------------------- *)
footerNeededHeight == 4500

drawFooter_noCheck(st0) ==
    LET st          == beginStep(st0)
        stampY      == st.y + 1000
        footerY     == stampY + 2000
        bottomTextY == Max(footerY + 1500, pageHeight - 1000)
    IN  emit(emit(st, "stamp", stampY, stampY + 2200),
             "text", footerY, bottomTextY)

\* 8. FOOTER LAYERS
drawFooter(st0) ==
    LET st          == checkPageBreak(beginStep(st0), footerNeededHeight)
        stampY      == st.y + 1000
        footerY     == stampY + 2000
        bottomTextY == Max(footerY + 1500, pageHeight - 1000)
    IN  emit(emit(st, "stamp", stampY, stampY + 2200),
             "text", footerY, bottomTextY)

(* ------------------------ receipts handed over ------------------------- *)
\* a line item as the cart holds it, with the warranty the clerk typed
PdfProduct(name, warrantyTime) ==
    [Product(name, 1) EXCEPT !.warrantyTime = warrantyTime]

\* the line item at position i of a cart of one of three kinds
PdfItem(kind, i) ==
    CASE kind = "plain"    -> PdfProduct("BASE CASAL", "")
      [] kind = "warranty" -> PdfProduct(COLCHAO_CASAL, "12")
      [] kind = "mixed"    -> IF i % 2 = 1 THEN PdfProduct(specificPillowName, "")
                              ELSE PdfProduct(COLCHAO_CASAL, "12")

\* a cart of n line items of one kind
PdfCart(kind, n) == [i \in 1..n |-> PdfItem(kind, i)]

PdfCartKinds == {"plain", "warranty", "mixed"}

\* the automatic discount and its label App computes for such a cart: the
\* pillows of a mixed cart are given away, the other carts get nothing
PdfBundle(kind, n) ==
    IF kind = "mixed" /\ n >= 2
    THEN [bundleDiscount |-> 100 * ((n + 1) \div 2), bundleLabel |-> labelGift]
    ELSE [bundleDiscount |-> 0, bundleLabel |-> labelFallback]

\* the client fields of a filled-in receipt
Client ==
    [date |-> "2026-11-03", name |-> "Maria Souza", cpf |-> "123.456.789-00",
     street |-> "Rua das Flores", number |-> "12", complement |-> "Apto 3",
     neighborhood |-> "Centro", city |-> "Belem",
     email |-> "maria@example.com", contact1 |-> "(91) 99999-0000",
     contact2 |-> "", saleCode |-> "ped-8402", salesperson |-> "ROBSON",
     paymentMethod |-> "Pix"]

\* INITIAL_DATA: every client field empty
EmptyClient == [k \in DOMAIN Client |-> ""]

Clients ==
    { Client, EmptyClient,
      [Client EXCEPT !.contact2 = "(91) 98888-1111"],
      [Client EXCEPT !.name = Repeat("N", 50)],
      [Client EXCEPT !.name = Repeat("N", 63)],
      [Client EXCEPT !.name = Repeat("N", 72)],
      [Client EXCEPT !.name = Repeat("N", 200), !.cpf = ""],
      [Client EXCEPT !.street = Repeat("R", 120), !.number = ""],
      [Client EXCEPT !.street = Repeat("R", 160), !.number = "1234"],
      [Client EXCEPT !.email = Repeat("e", 44), !.contact1 = Repeat("9", 45)],
      [Client EXCEPT !.name = undefined, !.email = undefined],
      [Client EXCEPT !.saleCode = undefined],
      [Client EXCEPT !.paymentMethod = undefined] }

\* getDataForExport(): client fields, cart, discount config and the automatic
\* discount App computed
Receipt(client, kind, n, discountValue) ==
    LET bundle == PdfBundle(kind, n)
    IN  [k \in DOMAIN client \cup {"products", "discountType", "discountValue",
                                   "bundleDiscount", "bundleLabel"} |->
            CASE k = "products"       -> PdfCart(kind, n)
              [] k = "discountType"   -> "fixed"
              [] k = "discountValue"  -> discountValue
              [] k = "bundleDiscount" -> bundle.bundleDiscount
              [] k = "bundleLabel"    -> bundle.bundleLabel
              [] OTHER                -> client[k]]

PdfReceipts ==
    { Receipt(Client, kind, n, v) :
        kind \in PdfCartKinds, n \in 0..MaxRows, v \in {0, 50} }
    \cup { Receipt(cl, kind, 2, 0) : cl \in Clients, kind \in PdfCartKinds }

(* ------------------------ createPDFDoc, by step ------------------------ *)
\* the ReceiptData createPDFDoc is called with
exportData == data

\* getReceiptBlob / generateReceiptPDF: createPDFDoc(getDataForExport())
PdfInit ==
    /\ data \in PdfReceipts
    /\ view = None
    /\ pc = "header"
    /\ doc = NewDoc
    /\ pdf = None
    /\ ui = None
    /\ req = None

\* where createPDFDoc continues after a step (a throw rejects the promise)
goto(st, next) == IF st.threw THEN "failed" ELSE next

HeaderSection ==
    /\ pc = "header"
    /\ \E qrOk \in BOOLEAN : doc' = drawHeader(doc, qrOk)
    /\ pc' = "title"
    /\ UNCHANGED <<data, view, pdf, ui, req>>

Title ==
    /\ pc = "title"
    /\ doc' = drawTitle(doc)
    /\ pc' = "row1"
    /\ UNCHANGED <<data, view, pdf, ui, req>>

ClientRow1 ==
    /\ pc = "row1"
    /\ doc' = drawDynamicRow(doc, row1Fields(exportData))
    /\ pc' = "row2"
    /\ UNCHANGED <<data, view, pdf, ui, req>>

ClientRow2 ==
    /\ pc = "row2"
    /\ doc' = drawDynamicRow(doc, row2Fields(exportData))
    /\ pc' = "row3"
    /\ UNCHANGED <<data, view, pdf, ui, req>>

ClientRow3 ==
    /\ pc = "row3"
    /\ doc' = drawDynamicRow(doc, row3Fields(exportData))
    /\ pc' = "tableHeader"
    /\ UNCHANGED <<data, view, pdf, ui, req>>

TableHeader ==
    /\ pc = "tableHeader"
    /\ doc' = drawTableHeader(doc)
    /\ pc' = "rows"
    /\ UNCHANGED <<data, view, pdf, ui, req>>

ItemRow ==
    /\ pc = "rows"
    /\ doc.i < Len(exportData.products)
    /\ \E barcodeOk \in BOOLEAN :
          doc' = drawItemRow(doc, exportData.products[doc.i + 1], barcodeOk)
    /\ pc' = goto(doc', IF doc'.i = Len(exportData.products)
                        THEN "summary" ELSE "rows")
    /\ UNCHANGED <<data, view, pdf, ui, req>>

NoItems ==
    /\ pc = "rows"
    /\ Len(exportData.products) = 0
    /\ doc' = drawNoItems(doc)
    /\ pc' = "summary"
    /\ UNCHANGED <<data, view, pdf, ui, req>>

SummarySection ==
    /\ pc = "summary"
    /\ doc' = drawSummary(doc, exportData)
    /\ pc' = goto(doc', "observation")
    /\ UNCHANGED <<data, view, pdf, ui, req>>

Observation ==
    /\ pc = "observation"
    /\ doc' = drawObservation(doc)
    /\ pc' = "policy"
    /\ UNCHANGED <<data, view, pdf, ui, req>>

ReturnPolicy ==
    /\ pc = "policy"
    /\ doc' = drawPolicy(doc)
    /\ pc' = "footer"
    /\ UNCHANGED <<data, view, pdf, ui, req>>

Footer ==
    /\ pc = "footer"
    /\ doc' = drawFooter(doc)
    /\ pc' = "done"
    /\ UNCHANGED <<data, view, pdf, ui, req>>

PdfNext ==
    \/ HeaderSection \/ Title \/ ClientRow1 \/ ClientRow2 \/ ClientRow3
    \/ TableHeader \/ ItemRow \/ NoItems \/ SummarySection \/ Observation
    \/ ReturnPolicy \/ Footer

PdfSpec == PdfInit /\ [][PdfNext]_vars

(* ------------------------- layout properties --------------------------- *)
\* the lowest line a page may be drawn on
pageBottom == pageHeight - margin

\* the primitives of one kind emitted by the latest step
EmittedOf(st, kind) == SelectSeq(st.emitted, LAMBDA e : e.kind = kind)

\* the latest step drew an item row
RowDrawn(st) == Len(EmittedOf(st, "row")) = 1

\* the step at hand is an iteration of the row loop
ItemRowStep == pc = "rows" /\ doc.i < Len(data.products)

\* C11: before a row is drawn its height is computed; when it does not fit
\* above the page bottom a page is added, the cursor is reset to margin + 10,
\* the header band is redrawn there and that same row is drawn below it;
\* when it fits it is drawn at the cursor; no row ends below the page bottom.
C11_RowPagination ==
    [][ItemRowStep =>
         LET p    == data.products[doc.i + 1]
             h    == rowH(p)
             fits == doc.y + h <= pageBottom
             rows == EmittedOf(doc', "row")
             row  == rows[1]
             band == EmittedOf(doc', "band")
         IN  /\ Len(rows) = 1
             /\ doc'.i = doc.i + 1
             /\ row.bottom = row.top + h
             /\ row.bottom <= pageBottom
             /\ row.page = doc'.pages
             /\ doc'.y = row.bottom
             /\ fits => /\ doc'.pages = doc.pages
                        /\ band = << >>
                        /\ row.top = doc.y
             /\ ~fits => /\ doc'.pages = doc.pages + 1
                         /\ Len(band) = 1
                         /\ band[1].page = doc'.pages
                         /\ band[1].top = margin + 1000
                         /\ row.top = band[1].bottom
                         /\ doc'.emitted[1] = band[1]]_vars

\* a row that did not fit was moved under a new header band on a new page
C11_Witness ==
    /\ pc \in {"rows", "summary"}
    /\ RowDrawn(doc)
    /\ doc.broke
    /\ doc.pages = 2
    /\ EmittedOf(doc, "row")[1].top = margin + 1000 + 600

\* C12: once the heights of the item rows add up to more than the space under
\* the header band of the first page the document has at least 2 pages, and
\* every page with an item row has exactly one header band, above its rows.
C12_HeaderOncePerPage ==
    /\ Len(doc.log) = doc.pages
    /\ doc.rowsHeight > pageBottom - doc.log[1].bandBottom => doc.pages >= 2
    /\ \A pg \in 1..doc.pages :
          doc.log[pg].rows > 0 =>
             /\ doc.log[pg].bands = 1
             /\ doc.log[pg].bandBottom <= doc.log[pg].rowTop

\* a document of three pages, each with rows under one header band
C12_Witness ==
    /\ pc = "done"
    /\ doc.pages = 3
    /\ \A pg \in 1..3 : doc.log[pg].rows > 0 /\ doc.log[pg].bands = 1

\* the latest step drew the summary, the observation, the policy or the footer
BlockDrawn == pc \in {"observation", "policy", "footer", "done"}

\* the steps before the table and the blocks after it never leave their page
SinglePage(st) ==
    \A j \in DOMAIN st.emitted :
        /\ st.emitted[j].page = st.pages
        /\ st.emitted[j].top >= 0
        /\ st.emitted[j].bottom <= pageBottom

\* C13: the summary, the observation, the policy and the footer are each
\* drawn after a page-break decision for their whole height, so each lies on
\* one page above the page bottom; a page is only ever added by these
\* decisions or by an item row, never in the middle of a block.
C13_BlocksStayOnOnePage ==
    /\ BlockDrawn => SinglePage(doc)
    /\ pc \in {"title", "row1", "row2", "row3", "tableHeader"} => doc.pages = 1
    /\ (pc = "rows" /\ doc.i = 0) => doc.pages = 1

\* the footer did not fit under the policy and was drawn on a page of its own
C13_Witness ==
    /\ pc = "done"
    /\ doc.broke
    /\ doc.log[doc.pages].rows = 0
    /\ SinglePage(doc)

\* the document without its images
WithoutImages(st) ==
    [st EXCEPT !.emitted = SelectSeq(@, LAMBDA e : e.kind # "image"),
               !.imageFailed = FALSE]

\* C14: a failed QR or barcode is caught where it happens: the step does not
\* throw, and page count, cursor and every primitive but the image are those
\* of the step with the image; the rows after it get their own barcode.
C14_ImageFailureIsLocal ==
    [][/\ pc = "header" =>
             /\ ~doc'.threw
             /\ WithoutImages(doc') = WithoutImages(drawHeader(doc, TRUE))
       /\ ItemRowStep =>
             /\ ~doc'.threw
             /\ pc' # "failed"
             /\ WithoutImages(doc') =
                   WithoutImages(drawItemRow(doc, data.products[doc.i + 1], TRUE))
             /\ \/ Len(EmittedOf(doc', "image")) = 1
                \/ doc'.imageFailed]_vars

\* createPDFDoc returned a document although an image had failed, and the
\* last row got its barcode
C14_Witness ==
    /\ pc = "summary"
    /\ doc.imageFailed
    /\ doc.i = Len(data.products)
    /\ doc.i >= 2
    /\ Len(EmittedOf(doc, "image")) = 1

(* --------------------------- grid properties --------------------------- *)
\* the latest step drew a row of the client data grid
GridRowDrawn == pc \in {"row2", "row3", "tableHeader"}

\* the fields of the grid row the latest step drew
GridFields ==
    CASE pc = "row2"        -> row1Fields(data)
      [] pc = "row3"        -> row2Fields(data)
      [] pc = "tableHeader" -> row3Fields(data)

\* the receipt fields shown in each cell of the grid row the latest step drew
GridSources ==
    CASE pc = "row2"        -> << {"date"}, {"name"}, {"cpf"} >>
      [] pc = "row3"        -> << {"street"}, {"number"}, {"complement"},
                                  {"neighborhood"}, {"city"} >>
      [] pc = "tableHeader" -> << {"email"}, {"contact1", "contact2"} >>

\* the needed widths of the grid row the latest step drew, and their total
GridNeeded == [i \in 1..Len(GridFields) |-> neededWidth(GridFields[i])]
GridTotal  == sumWidths(GridNeeded, Len(GridNeeded))

\* the widths allocated to the cells of the latest step add up to this
CellsWidth == sumWidths([i \in 1..Len(doc.cells) |-> doc.cells[i].w],
                        Len(doc.cells))

\* C15: every field of a grid row but the last is allocated
\* needed / total * contentWidth, the last one the space that remains, so the
\* cells run from margin to margin and their widths add up to contentWidth;
\* a row whose needed widths add up to contentWidth gets exactly those.
C15_AdaptiveWidths ==
    GridRowDrawn =>
        LET cs == doc.cells
            n  == Len(cs)
        IN  /\ n = Len(GridFields)
            /\ GridTotal > 0
            /\ cs[1].x = margin
            /\ \A i \in 1..(n - 1) :
                  /\ cs[i].w = RoundDiv(GridNeeded[i] * contentWidth, GridTotal)
                  /\ cs[i + 1].x = cs[i].x + cs[i].w
            /\ cs[n].x + cs[n].w = margin + contentWidth
            /\ CellsWidth = contentWidth
            /\ GridTotal = contentWidth =>
                  \A i \in 1..n : cs[i].w = GridNeeded[i]

\* a row whose needed widths add up to contentWidth exactly
C15_Witness ==
    /\ GridRowDrawn
    /\ GridTotal = contentWidth
    /\ \E i, j \in 1..Len(doc.cells) : doc.cells[i].w # doc.cells[j].w

\* what a cell shows before any shrinking: value || '-'
Shown(c) == OrElse(c.value, "-")

\* the value of a cell measured at the default size
WidthAt9(c) == getTextWidth(Shown(c), defaultFontSize)

\* the exact size 9 * usableWidth / measuredWidth is at least the minimum size
ScaledSizeAtLeastMin(c) == c.maxWidth * defaultFontSize >= minFontSize * WidthAt9(c)

\* C16 (as stated): a value that fits the usable width at size 9 is drawn
\* unchanged at size 9; one that does not is drawn at
\* 9 * usableWidth / measuredWidth, floored at 5; whenever that size is at
\* least 5 the value is drawn whole within the usable width; the size is
\* always between 5 and 9.
C16_ShrinkToFitAsStated ==
    GridRowDrawn =>
        \A i \in 1..Len(doc.cells) :
            LET c == doc.cells[i]
            IN  /\ c.maxWidth = c.w - padding
                /\ c.fontSize >= minFontSize /\ c.fontSize <= defaultFontSize
                /\ WidthAt9(c) <= c.maxWidth =>
                      c.fontSize = defaultFontSize /\ c.text = Shown(c)
                /\ WidthAt9(c) > c.maxWidth =>
                      c.fontSize = Max(minFontSize,
                                       RoundDiv(c.maxWidth * defaultFontSize,
                                                WidthAt9(c)))
                /\ (WidthAt9(c) > c.maxWidth /\ ScaledSizeAtLeastMin(c)) =>
                      c.text = Shown(c) /\ c.textWidth <= c.maxWidth

\* the value of a cell does not fit its usable width even at the minimum size
TooWideAtMin(c) ==
    /\ c.fontSize = minFontSize
    /\ getTextWidth(Shown(c), minFontSize) > c.maxWidth

\* a text is what is left of a value after k characters were cut, plus "..."
IsTruncationOf(text, value, k) ==
    /\ k <= Len(value)
    /\ text = SubSeq(value, 1, Len(value) - k) \o ellipsis

\* C17 (as stated): a value too wide at the minimum size loses characters at
\* its end and gets an ellipsis, and what is drawn (the rest of the value and
\* "...") is never wider than the usable width.
C17_TruncationFitsAsStated ==
    GridRowDrawn =>
        \A i \in 1..Len(doc.cells) :
            LET c == doc.cells[i]
            IN  TooWideAtMin(c) =>
                  /\ \E k \in 0..Len(Shown(c)) : IsTruncationOf(c.text, Shown(c), k)
                  /\ c.textWidth <= c.maxWidth

\* C17: a value too wide at the minimum size loses as few characters at its
\* end as make the rest and "..." fit the usable width; when not even "..."
\* alone fits, every character is cut and "..." is drawn wider than the
\* usable width.
C17_TruncationFitsOrEmpties ==
    GridRowDrawn =>
        \A i \in 1..Len(doc.cells) :
            LET c == doc.cells[i]
            IN  TooWideAtMin(c) =>
                  \E k \in 0..Len(Shown(c)) :
                     /\ IsTruncationOf(c.text, Shown(c), k)
                     /\ c.textWidth <= c.maxWidth \/ k = Len(Shown(c))
                     /\ \A j \in 0..(k - 1) :
                           getTextWidth(SubSeq(Shown(c), 1, Len(Shown(c)) - j)
                                           \o ellipsis, minFontSize) > c.maxWidth

\* one cell was cut to fit at the minimum size and another one in the same
\* document is too narrow even for "..."
C17_Witness ==
    /\ GridRowDrawn
    /\ \E i \in 1..Len(doc.cells) :
          LET c == doc.cells[i]
          IN  /\ TooWideAtMin(c)
              /\ Len(c.text) > Len(ellipsis)
              /\ Len(c.text) < Len(Shown(c))
              /\ c.textWidth <= c.maxWidth

\* every receipt field a cell shows is empty or missing
AllFalsy(sources) == \A k \in sources : Falsy(data[k])

\* C18 (as stated): an empty or missing date, name, tax id, address part,
\* e-mail, contacts, salesperson, paymentMethod or saleCode is drawn as "-",
\* and never makes createPDFDoc fail.
C18_PlaceholderAsStated ==
    /\ pc # "failed"
    /\ GridRowDrawn =>
          \A i \in 1..Len(doc.cells) :
              AllFalsy(GridSources[i]) => doc.cells[i].text = "-"
    /\ pc = "observation" =>
          /\ Falsy(data.saleCode)      => doc.cells[1].text = "-"
          /\ Falsy(data.salesperson)   => doc.cells[2].text = "-"
          /\ Falsy(data.paymentMethod) => doc.cells[3].text = "-"

(***************************************************************************)
(* handleSmartImport: the import of a pasted order through the             *)
(* text-understanding service (parseReceiptFromText).                      *)
(***************************************************************************)

(* ------------------------------ bounds --------------------------------- *)
\* most items in the answer of the service
MaxItems == 2

(* --------------------------- the service ------------------------------- *)
\* an object without properties
EmptyObject == [k \in {} |-> ""]

\* the items an answer can hold: objects with a catalogue name and a
\* quantity, with the quantity 0 or without one, an object whose name is not
\* in the catalogue, and the bare name string the prompt asks for (text is
\* the string; a string has no name and no quantity property)
ImportItems ==
    { [name |-> "BASE CASAL", quantity |-> 2],
      [name |-> COLCHAO_CASAL, quantity |-> 3],
      [name |-> "BASE CASAL", quantity |-> 0],
      [name |-> "Colchao Queen"],
      [name |-> "base casal", quantity |-> 1],
      [text |-> "BASE CASAL"] }

\* the client data an answer can hold
ImportClientData ==
    { EmptyObject,
      [name |-> "Joao Lima", saleCode |-> "8402"],
      [name |-> "Joao Lima", saleCode |-> undefined] }

\* the objects JSON.parse can return for an answer
ImportResults ==
    { [clientData |-> cd, items |-> it] :
        cd \in ImportClientData,
        it \in UNION { [1..n -> ImportItems] : n \in 0..MaxItems } }
    \cup { EmptyObject, [clientData |-> [name |-> "Joao Lima"]] }

\* the errors ai.models.generateContent can reject with: the message and the
\* object JSON.parse finds between the braces of the message, if any
ServiceErrors ==
    { [message |-> "Failed to fetch", json |-> None],
      [message |-> "", json |-> None],
      [message |-> "API key not valid", json |-> None],
      [message |-> "got status: 403 {error}",
       json |-> [status |-> "PERMISSION_DENIED",
                 message |-> "Your API key was reported as leaked."]],
      [message |-> "got status: 429 {error}",
       json |-> [status |-> "RESOURCE_EXHAUSTED", message |-> "Quota exceeded"]],
      [message |-> "got status: 500 {error}",
       json |-> [status |-> "INTERNAL", message |-> ""]] }

\* what the service does with a request: it rejects, or answers with a text
\* that is empty, is not JSON, is the JSON null, or is the JSON of an object
ServiceOutcomes ==
    { [kind |-> "rejected", error |-> e] : e \in ServiceErrors }
    \cup { [kind |-> "empty"], [kind |-> "notJson"], [kind |-> "null"] }
    \cup { [kind |-> "object", value |-> r] : r \in ImportResults }

\* parseReceiptFromText after its one generateContent call: the parsed
\* answer, or the error it rethrows
parseReceiptFromText(outcome) ==
    CASE outcome.kind = "rejected" ->
            [ok |-> FALSE, isNull |-> FALSE, error |-> outcome.error]
      [] outcome.kind = "empty" ->
            [ok |-> FALSE, isNull |-> FALSE,
             error |-> [message |-> "No response from AI", json |-> None]]
      [] outcome.kind = "notJson" ->
            [ok |-> FALSE, isNull |-> FALSE,
             error |-> [message |-> "Unexpected token O in JSON at position 0",
                        json |-> None]]
      [] outcome.kind = "null" ->
            [ok |-> TRUE, isNull |-> TRUE]
      [] outcome.kind = "object" ->
            [ok |-> TRUE, isNull |-> FALSE, value |-> outcome.value]

(* ------------------------------ the merge ------------------------------ *)
\* PRODUCT_CATALOG.find(p => p.name === item.name): its index, 0 when absent
systemProduct(item) ==
    LET name == IF "name" \in DOMAIN item THEN item.name ELSE undefined
    IN  IF \E j \in DOMAIN PRODUCT_CATALOG : PRODUCT_CATALOG[j].name = name
        THEN CHOOSE j \in DOMAIN PRODUCT_CATALOG :
                /\ PRODUCT_CATALOG[j].name = name
                /\ \A h \in 1..(j - 1) : PRODUCT_CATALOG[h].name # name
        ELSE 0

\* item.quantity || 1
quantityToAdd(item) ==
    IF "quantity" \in DOMAIN item /\ item.quantity # 0 THEN item.quantity ELSE 1

\* updatedProducts.findIndex(p => p.name === systemProduct.name), from 1;
\* 0 when no line item has the name
existingProductIndex(products, name) ==
    IF \E j \in DOMAIN products : products[j].name = name
    THEN CHOOSE j \in DOMAIN products :
            /\ products[j].name = name
            /\ \A h \in 1..(j - 1) : products[h].name # name
    ELSE 0

\* the values Math.random() is drawn from, in thousandths
RandomDraws == {0, 498, 999}

\* Math.floor(100000 + Math.random() * 900000).toString()
pseudoCode(random) == ToString(100000 + ((random * 900000) \div 1000))

\* one iteration of result.items.forEach
mergeItem(updatedProducts, item, random) ==
    LET sp == systemProduct(item)
    IN  IF sp = 0 THEN updatedProducts
        ELSE LET q   == quantityToAdd(item)
                 idx == existingProductIndex(updatedProducts,
                                             PRODUCT_CATALOG[sp].name)
             IN  IF idx > 0
                 THEN [updatedProducts EXCEPT ![idx].quantity = @ + q]
                 ELSE Append(updatedProducts,
                             [code |-> pseudoCode(random),
                              name |-> PRODUCT_CATALOG[sp].name,
                              price |-> PRODUCT_CATALOG[sp].price,
                              quantity |-> q,
                              warrantyTime |-> "", warrantyUnit |-> "MESES"])

RECURSIVE mergeItems(_, _, _, _)
\* the working copy after the first k items
mergeItems(products, items, randoms, k) ==
    IF k = 0 THEN products
    ELSE mergeItem(mergeItems(products, items, randoms, k - 1),
                   items[k], randoms[k])

\* result.items && Array.isArray(result.items)
itemsOf(result) == IF "items" \in DOMAIN result THEN result.items ELSE << >>

\* ...prev, ...result.clientData, products: updatedProducts
mergeClientData(prev, result, updatedProducts) ==
    LET cd == IF "clientData" \in DOMAIN result THEN result.clientData
              ELSE EmptyObject
    IN  [k \in DOMAIN prev \cup DOMAIN cd |->
            IF k = "products" THEN updatedProducts
            ELSE IF k \in DOMAIN cd THEN cd[k] ELSE prev[k]]

(* --------------------------- the import error -------------------------- *)
errorTitleAI     == "Erro na Inteligencia Artificial"
errorTitleLeaked == "CHAVE API BLOQUEADA (VAZAMENTO)"

\* the error is Google's report of a leaked key
isLeakReport(errObj) ==
    \/ /\ errObj.status = "PERMISSION_DENIED"
       /\ errObj.message # ""
       /\ includes(errObj.message, "leaked")
    \/ /\ errObj.message # ""
       /\ includes(errObj.message, "API key was reported as leaked")

importErrorOf_silent(error) == [title |-> errorTitleAI, msg |-> error.message]

\* the catch block of handleSmartImport: the title and message shown
importErrorOf(error) ==
    LET errorMsg0   == OrElse(error.message, "Erro desconhecido")
        hasJson     == error.json # None
        leak        == hasJson /\ isLeakReport(error.json)
        errorMsg1   == IF leak THEN "CHAVE API BLOQUEADA PELO GOOGLE" ELSE errorMsg0
        detailedMsg == IF ~hasJson THEN ""
                       ELSE IF leak
                       THEN "Sua API KEY foi detectada como publica (vazada) e bloqueada por seguranca."
                       ELSE OrElse(error.json.message, "{JSON.stringify(errObj)}")
        fallback    == /\ detailedMsg = ""
                       /\ \/ includes(errorMsg1, "leaked")
                          \/ includes(errorMsg1, "API key")
    IN  IF fallback
        THEN [title |-> errorTitleLeaked,
              msg |-> "SOLUCAO: Gere uma nova chave no Google AI Studio e atualize a variavel 'VITE_API_KEY' na Vercel."]
        ELSE [title |-> errorTitleAI, msg |-> OrElse(detailedMsg, errorMsg1)]

\* the TypeError of reading result.items of null
NullResultError ==
    [message |-> "Cannot read properties of null (reading 'items')",
     json |-> None]

(* ------------------------- handleSmartImport --------------------------- *)
\* the carts an import starts from
ImportCarts ==
    { << >>,
      << Product("BASE CASAL", 1) >>,
      << Product("BASE CASAL", 1), Product(COLCHAO_CASAL, 2),
         [Product("BASE CASAL", 3) EXCEPT !.code = "222222"] >> }

\* the import tab is open with a pasted order; an earlier error may still show
ImportInit ==
    /\ data \in { [products |-> c, name |-> n, saleCode |-> "77",
                   salesperson |-> "SARA"] :
                    c \in ImportCarts, n \in {"", "Ana Reis"} }
    /\ ui \in { [importText |-> "Pedido 8402 Joao Lima 2 base casal",
                 isImporting |-> FALSE, importError |-> e,
                 activeTab |-> "import"] :
                   e \in {None, [title |-> errorTitleAI, msg |-> "Failed to fetch"]} }
    /\ req = [calls |-> 0, products |-> << >>, outcome |-> None,
              randoms |-> << >>]
    /\ pc = "idle"
    /\ view = None
    /\ pdf = None
    /\ doc = None

\* handleSmartImport up to its await: the flag is set, the old error is
\* cleared, and parseReceiptFromText sends its one request; the handler keeps
\* the data.products of this render
handleSmartImport ==
    /\ pc = "idle"
    /\ ui.importText # ""
    /\ ui' = [ui EXCEPT !.isImporting = TRUE, !.importError = None]
    /\ req' = [calls |-> req.calls + 1, products |-> data.products,
               outcome |-> None, randoms |-> << >>]
    /\ pc' = "awaiting"
    /\ UNCHANGED <<data, view, pdf, doc>>

\* ai.models.generateContent settles: the service rejects or answers
generateContent ==
    /\ pc = "awaiting"
    /\ \E outcome \in ServiceOutcomes : req' = [req EXCEPT !.outcome = outcome]
    /\ pc' = "settled"
    /\ UNCHANGED <<data, ui, view, pdf, doc>>

\* handleSmartImport after its await, when parseReceiptFromText returned an
\* object: merge, setData, clear the text, back to the manual tab
handleSmartImport_try ==
    /\ pc = "settled"
    /\ LET result == parseReceiptFromText(req.outcome)
       IN  /\ result.ok /\ ~result.isNull
           /\ \E randoms \in [1..Len(itemsOf(result.value)) -> RandomDraws] :
                 /\ data' = mergeClientData(data, result.value,
                               mergeItems(req.products, itemsOf(result.value),
                                          randoms, Len(itemsOf(result.value))))
                 /\ req' = [req EXCEPT !.randoms = randoms]
    /\ ui' = [ui EXCEPT !.importText = "", !.activeTab = "manual",
                        !.isImporting = FALSE]
    /\ pc' = "imported"
    /\ UNCHANGED <<view, pdf, doc>>

\* handleSmartImport after its await, when parseReceiptFromText threw or
\* returned null: the error is shown
handleSmartImport_catch ==
    /\ pc = "settled"
    /\ LET result == parseReceiptFromText(req.outcome)
       IN  /\ ~result.ok \/ result.isNull
           /\ ui' = [ui EXCEPT
                       !.importError = importErrorOf(IF result.ok
                                                     THEN NullResultError
                                                     ELSE result.error),
                       !.isImporting = FALSE]
    /\ pc' = "importFailed"
    /\ UNCHANGED <<data, req, view, pdf, doc>>

ImportNext ==
    \/ handleSmartImport \/ generateContent
    \/ handleSmartImport_try \/ handleSmartImport_catch

ImportSpec == ImportInit /\ [][ImportNext]_vars

(***************************************************************************)
(* Properties of the import                                                *)
(***************************************************************************)

\* the item list the handler iterates over in the step being taken
ImportedItems == itemsOf(parseReceiptFromText(req.outcome).value)

\* the working copy before item k of the step being taken (req' holds the
\* draws of Math.random of that step)
CartBefore(k) == mergeItems(req.products, ImportedItems, req'.randoms, k - 1)

\* the name of a returned item: of a string, the string itself
itemName(item) == IF "text" \in DOMAIN item THEN item.text ELSE item.name

IsCatalogName(name) == \E j \in DOMAIN PRODUCT_CATALOG : PRODUCT_CATALOG[j].name = name

CatalogPrice(name) ==
    PRODUCT_CATALOG[CHOOSE j \in DOMAIN PRODUCT_CATALOG :
                        PRODUCT_CATALOG[j].name = name].price

Digits == {"0", "1", "2", "3", "4", "5", "6", "7", "8", "9"}

IsSixDigitCode(code) ==
    /\ Len(code) = 6
    /\ \A j \in 1..6 : SubSeq(code, j, j) \in Digits

\* the first line item of the cart with the name; 0 when there is none
FirstWithName(lines, name) ==
    IF \E j \in DOMAIN lines : lines[j].name = name
    THEN CHOOSE j \in DOMAIN lines :
            lines[j].name = name /\ \A h \in 1..(j - 1) : lines[h].name # name
    ELSE 0

\* what the merge rule says item does to the cart before, giving after; the
\* quantity is compared only when the item carries one
MergedAsStated(before, item, after) ==
    LET name == itemName(item)
        idx  == FirstWithName(before, name)
        has  == "quantity" \in DOMAIN item
    IN  IF ~IsCatalogName(name) THEN after = before
        ELSE IF idx > 0
        THEN /\ Len(after) = Len(before)
             /\ \A j \in DOMAIN before :
                   IF j = idx
                   THEN /\ [after[j] EXCEPT !.quantity = 0]
                             = [before[j] EXCEPT !.quantity = 0]
                        /\ has => after[j].quantity
                                    = before[j].quantity + item.quantity
                   ELSE after[j] = before[j]
        ELSE /\ Len(after) = Len(before) + 1
             /\ SubSeq(after, 1, Len(before)) = before
             /\ after[Len(after)].name = name
             /\ after[Len(after)].price = CatalogPrice(name)
             /\ has => after[Len(after)].quantity = item.quantity
             /\ IsSixDigitCode(after[Len(after)].code)

\* C19: an import that succeeds merges the returned items into the cart in
\* order: an item whose name is not exactly a catalogue name is dropped; an
\* item whose name is already in the cart adds its quantity to the first line
\* item of that name; any other item is appended with the catalogue name and
\* price, the item's quantity and a six-digit code; the line items already in
\* the cart keep their order
C19_MergeAsStated ==
    [][ handleSmartImport_try =>
          /\ data'.products
               = mergeItems(req.products, ImportedItems, req'.randoms,
                            Len(ImportedItems))
          /\ \A k \in 1..Len(ImportedItems) :
                MergedAsStated(CartBefore(k), ImportedItems[k],
                               CartBefore(k + 1)) ]_vars

\* the import did not succeed: the service rejected, or its answer was empty,
\* not JSON, or the JSON null
ImportFails == req.outcome.kind \in {"rejected", "empty", "notJson", "null"}

RECURSIVE RowsOnPages(_, _)
\* the item rows drawn on the first n pages
RowsOnPages(st, n) ==
    IF n = 0 THEN 0 ELSE RowsOnPages(st, n - 1) + st.log[n].rows

\* C25: every line item handled so far is exactly one table row (the rows
\* drawn on all pages count the items handled, before and after a page
\* break), a row is drawn after the row before it (on the same page below
\* it, or on a later page), and the primitives of every step are all on the
\* last page of the document, which no step ever lowers.
C25_OneRowPerItemInOrder ==
    [][ /\ doc' # doc =>
             /\ doc'.pages >= doc.pages
             /\ ~doc'.threw =>
                   \A j \in DOMAIN doc'.emitted :
                      doc'.emitted[j].page = doc'.pages
        /\ pc' \in {"rows", "summary", "observation", "policy", "footer", "done"} =>
             RowsOnPages(doc', doc'.pages) = doc'.i
        /\ pc' \in {"summary", "observation", "policy", "footer", "done"} =>
             doc'.i = Len(data.products)
        /\ ItemRowStep =>
             LET rows == EmittedOf(doc', "row")
             IN  /\ Len(rows) = 1
                 /\ doc'.i = doc.i + 1
                 /\ RowsOnPages(doc', doc'.pages)
                      = RowsOnPages(doc, doc.pages) + 1
                 /\ \/ rows[1].page > doc.pages
                    \/ rows[1].page = doc.pages /\ rows[1].top >= doc.y ]_vars

\* a cart whose rows ran over two page breaks has been drawn: every item has
\* its row and the third page holds some of them
C25_Witness ==
    /\ pc = "summary"
    /\ doc.i = Len(data.products)
    /\ doc.pages = 3
    /\ doc.log[3].rows > 0
    /\ RowsOnPages(doc, 3) = doc.i

(***************************************************************************)
(* drawDynamicRow on rows of any fields                                    *)
(***************************************************************************)
\* most fields in a row
MaxFields == 3

\* the fields a row can be made of: with and without a label, with a text
\* that is empty, missing, short or long, with no minimum or a minimum
RowFieldChoices ==
    { [label |-> l, text |-> t, min |-> m] :
        l \in {"", "Nome do Cliente"},
        t \in {"", undefined, "Ana", Repeat("N", 80)},
        m \in {0, 6000} }

GridInit ==
    /\ data \in { [fields |-> fs] :
                    fs \in UNION { [1..n -> RowFieldChoices] : n \in 0..MaxFields } }
    /\ doc = NewDoc
    /\ pc = "grid"
    /\ view = None
    /\ pdf = None
    /\ ui = None
    /\ req = None

\* drawDynamicRow(fields)
DynamicRow ==
    /\ pc = "grid"
    /\ doc' = drawDynamicRow(doc, data.fields)
    /\ pc' = "gridDrawn"
    /\ UNCHANGED <<data, view, pdf, ui, req>>

GridNext == DynamicRow

GridSpec == GridInit /\ [][GridNext]_vars

\* the needed widths of the row, and their total
RowNeeded == [i \in 1..Len(data.fields) |-> neededWidth(data.fields[i])]
RowTotal  == sumWidths(RowNeeded, Len(RowNeeded))

\* a vector of n needed widths that are all 0
ZeroWidths(n) == [i \in 1..n |-> 0]

\* C22: on a total needed width of 0 finalWidths takes the equal-division
\* branch (contentWidth / N for each of N fields); a row of N >= 1 fields
\* always has a total needed width of at least 6 mm per field, whatever its
\* texts and minimums, so its widths are the proportional shares
\* needed / total * contentWidth with total > 0: every width is a positive
\* number and the widths add up to contentWidth.
C22_NoDivisionByZero ==
    /\ \A n \in 1..(MaxFields + 1) :
          finalWidths(ZeroWidths(n)) = [i \in 1..n |-> RoundDiv(contentWidth, n)]
    /\ pc = "gridDrawn" =>
          LET cs == doc.cells
              n  == Len(data.fields)
          IN  /\ Len(cs) = n
              /\ RowTotal >= 600 * n
              /\ n >= 1 =>
                    /\ RowTotal > 0
                    /\ \A i \in 1..(n - 1) :
                          cs[i].w = RoundDiv(RowNeeded[i] * contentWidth, RowTotal)
                    /\ \A i \in 1..n : cs[i].w > 0
                    /\ sumWidths([i \in 1..n |-> cs[i].w], n) = contentWidth

\* a row of three fields without text and without minimum has been drawn:
\* the labels alone decide the shares
C22_Witness ==
    /\ pc = "gridDrawn"
    /\ Len(data.fields) = 3
    /\ \A i \in 1..3 : Falsy(data.fields[i].text) /\ data.fields[i].min = 0
    /\ doc.cells[1].w # doc.cells[2].w

(***************************************************************************)
(* Two createPDFDoc calls at once (handleGeneratePDF and handleSendEmail):  *)
(* a call runs from its start to the await of the QR code, and from there   *)
(* to its end, without giving way to the other call in between.             *)
(***************************************************************************)
\* most line items of a receipt made in parallel
MaxParRows == 8

\* the calls
Calls == {1, 2}

frame_shared(call) == 1

\* the doc and y of a call: they are locals of createPDFDoc, one pair per call
frame(call) == call

\* createPDFDoc from its start to the await: the header background and logo
drawHeaderBackground(st0) == emit(beginStep(st0), "pageHeader", 0, 4000)

\* createPDFDoc after the await: the QR code (or the catch), then y = 48
drawHeaderQR(st, qrOk) == [drawQR(st, qrOk) EXCEPT !.y = 4800]

\* the section that follows the one at pcv, and the document it leaves
sectionStep(pcv, st, e, imagesOk) ==
    CASE pcv = "title" -> [pc |-> "row1", doc |-> drawTitle(st)]
      [] pcv = "row1"  -> [pc |-> "row2", doc |-> drawDynamicRow(st, row1Fields(e))]
      [] pcv = "row2"  -> [pc |-> "row3", doc |-> drawDynamicRow(st, row2Fields(e))]
      [] pcv = "row3"  -> [pc |-> "tableHeader",
                           doc |-> drawDynamicRow(st, row3Fields(e))]
      [] pcv = "tableHeader" -> [pc |-> "rows", doc |-> drawTableHeader(st)]
      [] pcv = "rows" ->
            IF Len(e.products) = 0
            THEN [pc |-> "summary", doc |-> drawNoItems(st)]
            ELSE LET d == drawItemRow(st, e.products[st.i + 1], imagesOk)
                 IN  [pc |-> goto(d, IF d.i = Len(e.products)
                                     THEN "summary" ELSE "rows"),
                      doc |-> d]
      [] pcv = "summary" ->
            LET d == drawSummary(st, e)
            IN  [pc |-> goto(d, "observation"), doc |-> d]
      [] pcv = "observation" -> [pc |-> "policy", doc |-> drawObservation(st)]
      [] pcv = "policy"      -> [pc |-> "footer", doc |-> drawPolicy(st)]
      [] pcv = "footer"      -> [pc |-> "done", doc |-> drawFooter(st)]

\* the receipts made in parallel
ParReceipts ==
    { Receipt(cl, "mixed", n, 0) :
        cl \in {Client, EmptyClient}, n \in {0, 3, MaxParRows} }
    \cup { Receipt([Client EXCEPT !.saleCode = undefined], "plain", 2, 0) }

\* handleGeneratePDF and handleSendEmail have each been clicked; the image
\* libraries of a call work or fail
ParInit ==
    /\ data \in [Calls -> ParReceipts]
    /\ pc = [c \in Calls |-> "start"]
    /\ doc = [f \in Calls |-> NewDoc]
    /\ req \in { [running |-> 0, steps |-> [c \in Calls |-> 0], imagesOk |-> ok,
                  overlapped |-> FALSE] :
                   ok \in [Calls -> BOOLEAN] }
    /\ view = None
    /\ pdf = None
    /\ ui = None

\* a call starts: new jsPDF, y = 10, the header, up to the await (overlapped
\* records that the other call was waiting for its QR code at that moment)
createPDFDoc_call(c) ==
    /\ req.running = 0
    /\ pc[c] = "start"
    /\ doc' = [doc EXCEPT ![frame(c)] = drawHeaderBackground(NewDoc)]
    /\ pc' = [pc EXCEPT ![c] = "awaitQR"]
    /\ req' = [req EXCEPT !.steps[c] = 1,
                          !.overlapped = \E o \in Calls : pc[o] = "awaitQR"]
    /\ UNCHANGED <<data, view, pdf, ui>>

\* QRCode.toDataURL settles and the call goes on
createPDFDoc_resume(c) ==
    /\ req.running = 0
    /\ pc[c] = "awaitQR"
    /\ doc' = [doc EXCEPT ![frame(c)] = drawHeaderQR(@, req.imagesOk[c])]
    /\ pc' = [pc EXCEPT ![c] = "title"]
    /\ req' = [req EXCEPT !.running = c, !.steps[c] = 2]
    /\ UNCHANGED <<data, view, pdf, ui>>

\* the call that is running draws its next section
createPDFDoc_section(c) ==
    /\ req.running = c
    /\ \E r \in {sectionStep(pc[c], doc[frame(c)], data[c], req.imagesOk[c])} :
           /\ doc' = [doc EXCEPT ![frame(c)] = r.doc]
           /\ pc' = [pc EXCEPT ![c] = r.pc]
           /\ req' = [req EXCEPT
                        !.running = IF r.pc \in {"done", "failed"} THEN 0 ELSE c,
                        !.steps[c] = @ + 1]
    /\ UNCHANGED <<data, view, pdf, ui>>

ParNext ==
    \/ \E c \in Calls : createPDFDoc_call(c)
    \/ \E c \in Calls : createPDFDoc_resume(c)
    \/ \E c \in Calls : createPDFDoc_section(c)

ParSpec == ParInit /\ [][ParNext]_vars

RECURSIVE Alone(_, _, _)
\* where a call on receipt e is, and its document, after k steps when no
\* other call is made
Alone(e, imagesOk, k) ==
    IF k = 0 THEN [pc |-> "start", doc |-> NewDoc]
    ELSE IF k = 1
    THEN [pc |-> "awaitQR", doc |-> drawHeaderBackground(NewDoc)]
    ELSE IF k = 2
    THEN [pc |-> "title",
          doc |-> drawHeaderQR(drawHeaderBackground(NewDoc), imagesOk)]
    ELSE LET before == Alone(e, imagesOk, k - 1)
         IN  sectionStep(before.pc, before.doc, e, imagesOk)

\* C21: whatever the other call has done, a call that has taken k steps is
\* where it would be after k steps alone, with the same document: pages,
\* page breaks, cursor and primitives.
C21_CallsShareNoState ==
    \A c \in Calls :
        req.steps[c] >= 1 =>
            LET alone == Alone(data[c], req.imagesOk[c], req.steps[c])
            IN  /\ pc[c] = alone.pc
                /\ doc[c] = alone.doc

\* one call started while the other one was waiting for its QR code; both
\* are finished, on receipts of different length and page count
C21_Witness ==
    /\ req.overlapped
    /\ pc[1] = "done" /\ pc[2] = "done"
    /\ Len(data[1].products) # Len(data[2].products)
    /\ doc[1].pages # doc[2].pages
    /\ doc[1].pages >= 2

(* ------------------- more properties of the pricing -------------------- *)
\* every line item of the cart has a quantity of at least 1
QuantitiesPositive == \A k \in DOMAIN cart : cart[k].quantity >= 1

\* C27: on a cart whose prices are not negative and whose quantities are
\* positive every line item adds at most price * quantity to the automatic
\* discount, and never a negative amount, so the automatic discount of
\* getBundleDetails is at most the subtotal.
C27_DiscountAtMostSubtotal ==
    (pc \in {"rendered", "exported"} /\ QuantitiesPositive) =>
        LET tr == RuleTrace
        IN  /\ \A k \in DOMAIN cart :
                  LET added == Contribution(tr, k)
                  IN  /\ cart[k].price >= 0
                      /\ added >= 0
                      /\ added <= cart[k].price * cart[k].quantity
            /\ view.bundleDiscount = tr[Len(cart) + 1].totalDiscount
            /\ view.bundleDiscount <= view.subtotal

\* a cart of positive quantities in which the gift pillow is discounted in
\* full and a base by less than its line total
C27_Witness ==
    /\ pc = "rendered"
    /\ QuantitiesPositive
    /\ \E k \in DOMAIN cart :
          /\ Contribution(RuleTrace, k) = cart[k].price * cart[k].quantity
          /\ Contribution(RuleTrace, k) > 0
    /\ \E k \in DOMAIN cart :
          /\ Contribution(RuleTrace, k) > 0
          /\ Contribution(RuleTrace, k) < cart[k].price * cart[k].quantity
    /\ view.bundleDiscount < view.subtotal

(***************************************************************************)
(* getBundleDetails on names with several size tokens                      *)
(***************************************************************************)
\* longest cart of such names
MaxSized == 4

\* a line item with a name and price of its own
SizedProduct(name, price, quantity) ==
    [code |-> "100000", name |-> name, price |-> price, quantity |-> quantity,
     warrantyTime |-> "", warrantyUnit |-> "MESES"]

\* mattresses and bases with no, one, two size tokens
SizedItems ==
    { SizedProduct(COLCHAO_CASAL, 1000, 2),
      SizedProduct("Colchao Queen", 1200, 1),
      SizedProduct(COLCHAO_KING, 1800, 1),
      SizedProduct("Colchao Casal Queen", 1100, 1),
      SizedProduct("Colchao Queen Super King", 1900, 1),
      SizedProduct("BASE CASAL", 400, 1),
      SizedProduct("BASE CASAL QUEEN", 500, 2),
      SizedProduct("BASE QUEEN SUPER KING", 600, 1) }

SizedInit ==
    /\ data \in { [products |-> c, discountType |-> "fixed", discountValue |-> 0] :
                    c \in UNION { [1..n -> SizedItems] : n \in 0..MaxSized } }
    /\ pc = "input"
    /\ view = None
    /\ pdf = None
    /\ doc = None
    /\ ui = None
    /\ req = None

SizedSpec == SizedInit /\ [][Next]_vars

\* the size classes named in the name of line item k, and their precedence
TokensOf(k) == { c \in Classes : includes(upperName[cart[k].name], c) }

Rank(class) ==
    CASE class = "CASAL" -> 1 [] class = "QUEEN" -> 2 [] class = "SUPER KING" -> 3

\* the class of lowest rank among S
FirstOf(S) == CHOOSE c \in S : \A o \in S : Rank(c) <= Rank(o)

IsMattressLine(k) == isMattress(upperName[cart[k].name])
IsBaseLine(k)     == isBase(upperName[cart[k].name])

\* the pools whose counter differs between the entries k and k + 1 of a trace
Changed(tr, k) == { c \in Classes : tr[k + 1][PoolOf(c)] # tr[k][PoolOf(c)] }

\* the classes named in base line k whose pool still has mattresses
Servable(tr, k) == { c \in TokensOf(k) : tr[k][PoolOf(c)] > 0 }

\* in the rule loop tr a base line draws from at most one pool, the first
\* one named in it that has mattresses, and no other line touches a pool
BasesDrawFromOnePool(tr) ==
    \A k \in DOMAIN cart :
        /\ ~IsBaseLine(k) => Changed(tr, k) = {}
        /\ IsBaseLine(k) =>
              /\ Cardinality(Changed(tr, k)) <= 1
              /\ Changed(tr, k) = IF Servable(tr, k) = {} THEN {}
                                  ELSE {FirstOf(Servable(tr, k))}

\* C26 (as stated): every mattress line is counted in exactly one pool (the
\* first of CASAL, QUEEN, SUPER KING named in it), every base line draws
\* from at most one pool, the first one named in it that has mattresses.
C26_PoolsAsStated ==
    pc \in {"rendered", "exported"} =>
        LET rt == RuleTrace
            it == InventoryTrace
        IN  /\ BasesDrawFromOnePool(rt)
            /\ \A k \in DOMAIN cart :
                  /\ ~IsMattressLine(k) => Changed(it, k) = {}
                  /\ IsMattressLine(k) =>
                        /\ Cardinality(Changed(it, k)) = 1
                        /\ TokensOf(k) # {} =>
                              Changed(it, k) = {FirstOf(TokensOf(k))}

\* C26 (amended): every mattress line is counted in at most one pool: in the
\* first of CASAL, QUEEN, SUPER KING named in it, with its quantity, and in
\* none when it names no class; every base line draws from at most one
\* pool, the first one named in it that has mattresses.
C26_PoolsAtMostOne ==
    pc \in {"rendered", "exported"} =>
        LET rt == RuleTrace
            it == InventoryTrace
        IN  /\ BasesDrawFromOnePool(rt)
            /\ \A k \in DOMAIN cart :
                  /\ ~IsMattressLine(k) => Changed(it, k) = {}
                  /\ IsMattressLine(k) =>
                        /\ TokensOf(k) = {} => Changed(it, k) = {}
                        /\ TokensOf(k) # {} =>
                              LET c == FirstOf(TokensOf(k))
                              IN  /\ Changed(it, k) = {c}
                                  /\ it[k + 1][PoolOf(c)]
                                       = it[k][PoolOf(c)] + cart[k].quantity

\* a mattress naming CASAL and QUEEN went to the CASAL pool, and a base
\* naming CASAL and QUEEN found the CASAL pool used up and drew from QUEEN
C26_Witness ==
    /\ pc = "rendered"
    /\ \E k \in DOMAIN cart :
          /\ IsMattressLine(k)
          /\ TokensOf(k) = {"CASAL", "QUEEN"}
          /\ Changed(InventoryTrace, k) = {"CASAL"}
    /\ \E k \in DOMAIN cart :
          /\ IsBaseLine(k)
          /\ TokensOf(k) = {"CASAL", "QUEEN"}
          /\ RuleTrace[1]["casalMattressCount"] > 0
          /\ RuleTrace[k]["casalMattressCount"] = 0
          /\ Changed(RuleTrace, k) = {"QUEEN"}

(***************************************************************************)
(* The cart handlers and the import, as the clerk can interleave them       *)
(***************************************************************************)
\* most clicks and keystrokes of the clerk in one run
MaxOps == 3

(* ------------------------------ strings -------------------------------- *)
RECURSIVE trimStart(_)
trimStart(s) ==
    IF Len(s) > 0 /\ SubSeq(s, 1, 1) = " " THEN trimStart(SubSeq(s, 2, Len(s)))
    ELSE s

RECURSIVE trimEnd(_)
trimEnd(s) ==
    IF Len(s) > 0 /\ SubSeq(s, Len(s), Len(s)) = " "
    THEN trimEnd(SubSeq(s, 1, Len(s) - 1))
    ELSE s

\* String.prototype.trim
trim(s) == trimEnd(trimStart(s))

DecimalDigits == "0123456789"

IsDigit(c) == \E d \in 1..10 : SubSeq(DecimalDigits, d, d) = c

DigitValue(c) == (CHOOSE d \in 1..10 : SubSeq(DecimalDigits, d, d) = c) - 1

RECURSIVE leadingDigits(_, _, _)
\* the value of the digits at the front of s, after n digits worth acc
leadingDigits(s, acc, n) ==
    IF Len(s) > 0 /\ IsDigit(SubSeq(s, 1, 1))
    THEN leadingDigits(SubSeq(s, 2, Len(s)),
                       acc * 10 + DigitValue(SubSeq(s, 1, 1)), n + 1)
    ELSE [value |-> acc, digits |-> n]

\* parseInt(text): blanks, an optional sign, then digits up to the first
\* character that is not one; NaN when there is no digit
parseInt(text) ==
    LET s    == trimStart(text)
        neg  == Len(s) > 0 /\ SubSeq(s, 1, 1) = "-"
        sign == Len(s) > 0 /\ SubSeq(s, 1, 1) \in {"-", "+"}
        r    == leadingDigits(IF sign THEN SubSeq(s, 2, Len(s)) ELSE s, 0, 0)
    IN  IF r.digits = 0 THEN [nan |-> TRUE, value |-> 0]
        ELSE [nan |-> FALSE, value |-> IF neg THEN 0 - r.value ELSE r.value]

\* parseInt(selectedQuantity) || 1
quantityValue(selectedQuantity) ==
    LET r == parseInt(selectedQuantity)
    IN  IF r.nan \/ r.value = 0 THEN 1 ELSE r.value

(* ------------------------------- inputs -------------------------------- *)
\* what the clerk can type into the quantity field
QuantityTexts == {"1", "3", "0", "-2", "", "2.5"}

\* the catalogue names picked in the search list
PickedNames == {"BASE CASAL", COLCHAO_CASAL}

\* the text pasted into the import tab, and texts that are blank
PastedText == "Pedido 8402 Joao Lima 2 base casal"
ImportTexts == {"", "  ", PastedText}

\* the outcomes of the service in these runs
CartOutcomes ==
    { [kind |-> "rejected",
       error |-> [message |-> "Failed to fetch", json |-> None]],
      [kind |-> "notJson"],
      [kind |-> "object", value |-> [clientData |-> EmptyObject, items |-> << >>]],
      [kind |-> "object",
       value |-> [clientData |-> [name |-> "Joao Lima"],
                  items |-> << [name |-> "BASE CASAL", quantity |-> 2] >>]],
      [kind |-> "object",
       value |-> [clientData |-> EmptyObject,
                  items |-> << [name |-> COLCHAO_CASAL, quantity |-> -3] >>]] }

\* the carts a run starts from
CartCarts ==
    { << >>,
      << Product("BASE CASAL", 1) >>,
      << Product("BASE CASAL", 1),
         [Product(COLCHAO_CASAL, 2) EXCEPT !.code = "222222"] >> }

\* the clerk's last click or keystroke and its arguments
Event(op, index, field) == [op |-> op, index |-> index, field |-> field]
NoEvent == Event("none", 0, "")

CartInit ==
    /\ data \in { [products |-> c, name |-> "Ana Reis", saleCode |-> "77"] :
                    c \in CartCarts }
    /\ ui \in { [importText |-> t, isImporting |-> FALSE, importError |-> None,
                 activeTab |-> tab, selectedProduct |-> sel,
                 selectedQuantity |-> "1", ops |-> 0, event |-> NoEvent] :
                   t \in {"", PastedText}, tab \in {"manual", "import"},
                   sel \in {""} \cup PickedNames }
    /\ req = [inFlight |-> 0, calls |-> 0, products |-> << >>,
              outcome |-> None, randoms |-> << >>]
    /\ pc = "idle"
    /\ view = None
    /\ pdf = None
    /\ doc = None

\* the clerk can act: between two events, never between the settling of the
\* request and the continuation of handleSmartImport
ClerkActs == pc \in {"idle", "awaiting"} /\ ui.ops < MaxOps

\* the tab buttons
setActiveTab ==
    /\ ClerkActs
    /\ \E tab \in {"manual", "import"} :
          /\ tab # ui.activeTab
          /\ ui' = [ui EXCEPT !.activeTab = tab, !.ops = @ + 1,
                              !.event = Event("tab", 0, "")]
    /\ UNCHANGED <<data, pc, req, view, pdf, doc>>

\* handleSearchSelect(name): a product is picked in the search list
handleSearchSelect ==
    /\ ClerkActs
    /\ ui.activeTab = "manual"
    /\ \E name \in PickedNames :
          ui' = [ui EXCEPT !.selectedProduct = name, !.ops = @ + 1,
                           !.event = Event("select", 0, "")]
    /\ UNCHANGED <<data, pc, req, view, pdf, doc>>

\* the quantity field is edited
setSelectedQuantity ==
    /\ ClerkActs
    /\ ui.activeTab = "manual"
    /\ \E text \in QuantityTexts :
          /\ text # ui.selectedQuantity
          /\ ui' = [ui EXCEPT !.selectedQuantity = text, !.ops = @ + 1,
                              !.event = Event("quantity", 0, "")]
    /\ UNCHANGED <<data, pc, req, view, pdf, doc>>

\* the line item handleAddProduct builds
newProduct(selectedProduct, selectedQuantity, random) ==
    [code |-> pseudoCode(random),
     name |-> selectedProduct,
     price |-> PRODUCT_CATALOG[systemProduct([name |-> selectedProduct])].price,
     quantity |-> quantityValue(selectedQuantity),
     warrantyTime |-> "", warrantyUnit |-> "MESES"]

\* handleAddProduct
handleAddProduct ==
    /\ ClerkActs
    /\ ui.activeTab = "manual"
    /\ IF ui.selectedProduct = ""
       THEN /\ ui' = [ui EXCEPT !.ops = @ + 1, !.event = Event("add", 0, "")]
            /\ data' = data
       ELSE /\ \E random \in RandomDraws :
                 data' = [data EXCEPT !.products =
                            Append(@, newProduct(ui.selectedProduct,
                                                 ui.selectedQuantity, random))]
            /\ ui' = [ui EXCEPT !.selectedProduct = "", !.selectedQuantity = "1",
                                !.ops = @ + 1, !.event = Event("add", 0, "")]
    /\ UNCHANGED <<pc, req, view, pdf, doc>>

\* prev.products.filter((_, i) => i !== index)
removeAt(products, index) ==
    [j \in 1..(Len(products) - 1) |->
        IF j < index THEN products[j] ELSE products[j + 1]]

\* handleRemoveProduct(index)
handleRemoveProduct ==
    /\ ClerkActs
    /\ ui.activeTab = "manual"
    /\ \E index \in DOMAIN data.products :
          /\ data' = [data EXCEPT !.products = removeAt(@, index)]
          /\ ui' = [ui EXCEPT !.ops = @ + 1,
                              !.event = Event("remove", index, "")]
    /\ UNCHANGED <<pc, req, view, pdf, doc>>

\* prev.products.map: the item at index gets the value in warrantyTime when
\* the field is 'time' and in warrantyUnit otherwise
updateWarranty(products, index, field, value) ==
    [i \in DOMAIN products |->
        IF i # index THEN products[i]
        ELSE IF field = "time" THEN [products[i] EXCEPT !.warrantyTime = value]
        ELSE [products[i] EXCEPT !.warrantyUnit = value]]

\* handleUpdateProductWarranty(index, field, value)
handleUpdateProductWarranty ==
    /\ ClerkActs
    /\ ui.activeTab = "manual"
    /\ \E index \in DOMAIN data.products, field \in {"time", "unit"} :
          /\ data' = [data EXCEPT !.products =
                        updateWarranty(@, index, field,
                                       IF field = "time" THEN "12" ELSE "ANOS")]
          /\ ui' = [ui EXCEPT !.ops = @ + 1,
                              !.event = Event("warranty", index, field)]
    /\ data' # data
    /\ UNCHANGED <<pc, req, view, pdf, doc>>

\* the import text area is edited
setImportText ==
    /\ ClerkActs
    /\ ui.activeTab = "import"
    /\ \E text \in ImportTexts :
          /\ text # ui.importText
          /\ ui' = [ui EXCEPT !.importText = text, !.ops = @ + 1,
                              !.event = Event("text", 0, "")]
    /\ UNCHANGED <<data, pc, req, view, pdf, doc>>

importDisabled_byTextOnly(u) == trim(u.importText) = ""

\* disabled={isImporting || !importText.trim()}
importDisabled(u) == u.isImporting \/ trim(u.importText) = ""

\* the import button is clicked: handleSmartImport up to its await
importClick ==
    /\ ClerkActs
    /\ ui.activeTab = "import"
    /\ IF importDisabled(ui) \/ trim(ui.importText) = ""
       THEN \* a disabled button hands no click to the handler, and the
            \* handler returns at once on a blank text
            /\ ui' = [ui EXCEPT !.ops = @ + 1, !.event = Event("import", 0, "")]
            /\ UNCHANGED <<req, pc>>
       ELSE /\ ui' = [ui EXCEPT !.isImporting = TRUE, !.importError = None,
                                !.ops = @ + 1, !.event = Event("import", 0, "")]
            /\ req' = [inFlight |-> req.inFlight + 1, calls |-> req.calls + 1,
                       products |-> data.products, outcome |-> None,
                       randoms |-> << >>]
            /\ pc' = "awaiting"
    /\ UNCHANGED <<data, view, pdf, doc>>

\* ai.models.generateContent settles
importSettle ==
    /\ pc = "awaiting"
    /\ \E outcome \in CartOutcomes : req' = [req EXCEPT !.outcome = outcome]
    /\ pc' = "settled"
    /\ UNCHANGED <<data, ui, view, pdf, doc>>

\* handleSmartImport after the await, parseReceiptFromText returned an object
importTry ==
    /\ pc = "settled"
    /\ LET result == parseReceiptFromText(req.outcome)
       IN  /\ result.ok /\ ~result.isNull
           /\ \E randoms \in [1..Len(itemsOf(result.value)) -> RandomDraws] :
                 /\ data' = mergeClientData(data, result.value,
                               mergeItems(req.products, itemsOf(result.value),
                                          randoms, Len(itemsOf(result.value))))
                 /\ req' = [req EXCEPT !.randoms = randoms,
                                       !.inFlight = @ - 1]
    /\ ui' = [ui EXCEPT !.importText = "", !.activeTab = "manual",
                        !.isImporting = FALSE]
    /\ pc' = "idle"
    /\ UNCHANGED <<view, pdf, doc>>

\* handleSmartImport after the await, parseReceiptFromText threw
importCatch ==
    /\ pc = "settled"
    /\ LET result == parseReceiptFromText(req.outcome)
       IN  /\ ~result.ok \/ result.isNull
           /\ ui' = [ui EXCEPT
                       !.importError = importErrorOf(IF result.ok
                                                     THEN NullResultError
                                                     ELSE result.error),
                       !.isImporting = FALSE]
    /\ req' = [req EXCEPT !.inFlight = @ - 1]
    /\ pc' = "idle"
    /\ UNCHANGED <<data, view, pdf, doc>>

CartNext ==
    \/ setActiveTab \/ handleSearchSelect \/ setSelectedQuantity
    \/ handleAddProduct \/ handleRemoveProduct \/ handleUpdateProductWarranty
    \/ setImportText \/ importClick \/ importSettle \/ importTry \/ importCatch

CartSpec == CartInit /\ [][CartNext]_vars

(***************************************************************************)
(* Properties of the cart handlers and of the import beside them            *)
(***************************************************************************)
\* C23: after any sequence of handleAddProduct, handleSmartImport,
\* handleRemoveProduct and handleUpdateProductWarranty calls, whatever the
\* quantity text typed and whatever quantity the import collaborator returns,
\* every line item of the cart has an integer quantity of at least 1.
C23_QuantitiesAtLeastOne ==
    \A i \in DOMAIN data.products : data.products[i].quantity >= 1

\* the step is the continuation of a successful import
ImportCompletes == pc = "settled" /\ pc' = "idle" /\ req'.inFlight < req.inFlight
                   /\ parseReceiptFromText(req.outcome).ok
                   /\ ~parseReceiptFromText(req.outcome).isNull

\* code, name and unit price of a line item
Identity(p) == <<p.code, p.name, p.price>>

\* the names the service returned in the request that settled
ReturnedNames ==
    LET items == itemsOf(parseReceiptFromText(req.outcome).value)
    IN  { itemName(items[k]) : k \in DOMAIN items }

\* the step kept every line item of the cart in its place with its code, name,
\* unit price and warranty, changed quantities of line items with a returned
\* name only, and dropped none
OnlyMatchedQuantitiesChange ==
    /\ Len(data'.products) >= Len(data.products)
    /\ \A i \in DOMAIN data.products :
          /\ [data'.products[i] EXCEPT !.quantity = 0]
                = [data.products[i] EXCEPT !.quantity = 0]
          /\ data'.products[i].quantity # data.products[i].quantity
                => data.products[i].name \in ReturnedNames

\* C24: no operation changes the code, name or unit price of an existing line
\* item: handleAddProduct only appends one new line item (nothing when no
\* product is selected), handleRemoveProduct(i) removes exactly the line item
\* at i and keeps the others in order, handleUpdateProductWarranty changes only
\* the chosen warranty field of line item i, and an import changes only the
\* quantities of the line items whose name it matched.
C24_ExistingItemsKeepIdentity ==
    [][ LET old == data.products
            new == data'.products
            e   == ui'.event
        IN  /\ (ui'.ops # ui.ops /\ e.op = "add") =>
                  IF ui.selectedProduct = "" THEN new = old
                  ELSE /\ Len(new) = Len(old) + 1
                       /\ SubSeq(new, 1, Len(old)) = old
                       /\ new[Len(new)].name = ui.selectedProduct
            /\ (ui'.ops # ui.ops /\ e.op = "remove") =>
                  /\ Len(new) = Len(old) - 1
                  /\ \A j \in DOMAIN new :
                        new[j] = IF j < e.index THEN old[j] ELSE old[j + 1]
            /\ (ui'.ops # ui.ops /\ e.op = "warranty") =>
                  /\ Len(new) = Len(old)
                  /\ \A j \in DOMAIN old :
                        IF j # e.index THEN new[j] = old[j]
                        ELSE IF e.field = "time"
                        THEN [new[j] EXCEPT !.warrantyTime = ""]
                                = [old[j] EXCEPT !.warrantyTime = ""]
                        ELSE [new[j] EXCEPT !.warrantyUnit = ""]
                                = [old[j] EXCEPT !.warrantyUnit = ""]
            /\ (ui'.ops # ui.ops /\ e.op \notin {"add", "remove", "warranty"}) =>
                  new = old
            /\ ImportCompletes => OnlyMatchedQuantitiesChange
            /\ (ui'.ops = ui.ops /\ ~ImportCompletes) => new = old
      ]_vars

\* the cart was changed while the request was in flight
ChangedInFlight == req.inFlight > 0 /\ data.products # req.products

\* C29: a cart change made while an import is in flight is still in the cart
\* after handleSmartImport completes successfully: the merge is applied to the
\* cart as it is when the import completes, not to the cart captured when the
\* import began.
C29_MergeOnCurrentCart ==
    [][ ImportCompletes =>
          data'.products =
             mergeItems(data.products,
                        itemsOf(parseReceiptFromText(req.outcome).value),
                        req'.randoms,
                        Len(itemsOf(parseReceiptFromText(req.outcome).value)))
      ]_vars

\* the flag is true exactly while a request is in flight, and there is at
\* most one
FlagFollowsRequest ==
    /\ ui.isImporting <=> req.inFlight > 0
    /\ req.inFlight <= 1

\* a click on the import button with a blank text starts no request and
\* changes nothing; a click that starts a request raises the flag in the same
\* step; the end of a request, in success or in failure, lowers it
FlagSteps ==
    /\ (ui'.ops # ui.ops /\ ui'.event.op = "import" /\ trim(ui.importText) = "")
          => /\ UNCHANGED <<data, req, pc>>
             /\ [ui' EXCEPT !.ops = 0, !.event = NoEvent]
                   = [ui EXCEPT !.ops = 0, !.event = NoEvent]
    /\ req'.calls > req.calls => ui'.isImporting /\ ~ui.isImporting
    /\ req'.inFlight < req.inFlight => ~ui'.isImporting /\ ui.isImporting

\* C30: the importing flag is true exactly while an import request is in
\* flight: it is set when the request starts and returns to false when the
\* request ends, in success or in failure; the import button is disabled while
\* it is true, so at most one request is in flight; an import with a blank
\* text starts no request and changes no state.
C30_ImportingFlag == [](FlagFollowsRequest) /\ [][FlagSteps]_vars

\* an import succeeded, and then the button was clicked on the blank text the
\* success left behind, with nothing in flight
C30_Witness ==
    /\ ui.event.op = "import" /\ trim(ui.importText) = ""
    /\ req.calls >= 1 /\ req.inFlight = 0 /\ ~ui.isImporting
    /\ req.outcome # None /\ parseReceiptFromText(req.outcome).ok

(***************************************************************************)
(* The totals in the arithmetic of Number (IEEE 754 binary64)               *)
(***************************************************************************)
\* A magnitude is an exact multiple of 2^-75 below 2^30, held in 7 limbs of
\* 15 bits, least significant first; limbs 6 and 7 are the integer part.
Base == 32768
Limbs == 7
FracLimbs == 5
\* the significand of a binary64 number
SignificandBits == 53

BigOfInt(n) ==
    [i \in 1..Limbs |->
        IF i = FracLimbs + 1 THEN n % Base
        ELSE IF i = FracLimbs + 2 THEN n \div Base
        ELSE 0]

BigZero == BigOfInt(0)

RECURSIVE addCarry(_, _, _)
addCarry(a, b, i) ==
    IF i = 1 THEN 0 ELSE (a[i - 1] + b[i - 1] + addCarry(a, b, i - 1)) \div Base

BigAdd(a, b) == [i \in 1..Limbs |-> (a[i] + b[i] + addCarry(a, b, i)) % Base]

RECURSIVE subBorrow(_, _, _)
subBorrow(a, b, i) ==
    IF i = 1 THEN 0
    ELSE IF a[i - 1] - b[i - 1] - subBorrow(a, b, i - 1) < 0 THEN 1 ELSE 0

\* a - b for a >= b
BigSub(a, b) ==
    [i \in 1..Limbs |-> (a[i] - b[i] - subBorrow(a, b, i) + Base) % Base]

RECURSIVE mulCarry(_, _, _)
mulCarry(a, k, i) ==
    IF i = 1 THEN 0 ELSE (a[i - 1] * k + mulCarry(a, k, i - 1)) \div Base

\* a * k for a whole number k below Base
BigMulSmall(a, k) == [i \in 1..Limbs |-> (a[i] * k + mulCarry(a, k, i)) % Base]

RECURSIVE divRem(_, _, _)
\* the remainder of the limbs i..Limbs of a divided by d
divRem(a, d, i) ==
    IF i > Limbs THEN 0 ELSE (divRem(a, d, i + 1) * Base + a[i]) % d

\* the whole part of a / d for a whole number d below Base
BigDivSmall(a, d) ==
    [i \in 1..Limbs |-> (divRem(a, d, i + 1) * Base + a[i]) \div d]

\* 1, 0 or -1 as a is above, equal to or below b
BigCmp(a, b) ==
    LET D == { i \in 1..Limbs : a[i] # b[i] }
    IN  IF D = {} THEN 0
        ELSE LET h == CHOOSE i \in D : \A j \in D : j <= i
             IN  IF a[h] > b[h] THEN 1 ELSE -1

\* the number of bits of a
BitLength(a) ==
    LET N == { i \in 1..Limbs : a[i] # 0 }
    IN  IF N = {} THEN 0
        ELSE LET h == CHOOSE i \in N : \A j \in N : j <= i
             IN  (h - 1) * 15 + (CHOOSE k \in 1..15 : 2^(k - 1) <= a[h] /\ a[h] < 2^k)

\* 2^n units
BigPow2(n) == [i \in 1..Limbs |-> IF i = (n \div 15) + 1 THEN 2^(n % 15) ELSE 0]

\* a modulo 2^n units
BigModPow2(a, n) ==
    [i \in 1..Limbs |->
        IF i < (n \div 15) + 1 THEN a[i]
        ELSE IF i = (n \div 15) + 1 THEN a[i] % (2^(n % 15))
        ELSE 0]

\* bit n of a
BitAt(a, n) == (a[(n \div 15) + 1] \div (2^(n % 15))) % 2

\* the binary64 number nearest to a (plus a fraction of a unit when inexact),
\* ties to the even significand
roundToNearest(a, inexact) ==
    LET shift == BitLength(a) - SignificandBits
    IN  IF shift <= 0 THEN a
        ELSE LET low  == BigModPow2(a, shift)
                 down == BigSub(a, low)
                 c    == BigCmp(low, BigPow2(shift - 1))
             IN  IF c > 0 \/ (c = 0 /\ (inexact \/ BitAt(a, shift) = 1))
                 THEN BigAdd(down, BigPow2(shift))
                 ELSE down

\* a Number: sign and magnitude
Double(neg, mag) == [neg |-> neg /\ mag # BigZero, mag |-> mag]

DoubleOfInt(n) == Double(n < 0, BigOfInt(IF n < 0 THEN 0 - n ELSE n))

\* x + y
numberAdd(x, y) ==
    IF x.neg = y.neg THEN Double(x.neg, roundToNearest(BigAdd(x.mag, y.mag), FALSE))
    ELSE IF BigCmp(x.mag, y.mag) >= 0
    THEN Double(x.neg, roundToNearest(BigSub(x.mag, y.mag), FALSE))
    ELSE Double(y.neg, roundToNearest(BigSub(y.mag, x.mag), FALSE))

\* x - y
numberSub(x, y) == numberAdd(x, Double(~y.neg, y.mag))

\* x * y for a whole number x of magnitude below Base
numberMul(x, y) ==
    Double(x.neg # y.neg,
           roundToNearest(BigMulSmall(y.mag, x.mag[FracLimbs + 1]), FALSE))

\* x / d for a whole number d in 1..Base-1
numberDiv(x, d) ==
    Double(x.neg, roundToNearest(BigDivSmall(x.mag, d), divRem(x.mag, d, 1) # 0))

\* Math.max(0, x)
numberMax0(x) == IF x.neg THEN DoubleOfInt(0) ELSE x

\* parseFloat of a decimal text: digits is the text without its comma,
\* decimals the number of digits after the comma
parseFloat(text) == numberDiv(DoubleOfInt(text.digits), 10^text.decimals)

\* toLocaleString('pt-BR', {style: 'currency', currency: 'BRL'}) of x >= 0:
\* the text is fixed by the number of centavos, x * 100 rounded to the
\* nearest whole number, halves upwards
printedCents(x) ==
    LET y == BigAdd(BigMulSmall(x.mag, 100), BigPow2(15 * FracLimbs - 1))
    IN  y[FracLimbs + 1] + y[FracLimbs + 2] * Base

(* --------------------------- the two computations ---------------------- *)
RECURSIVE reduceSubtotalNumber(_, _)
\* products.reduce((acc, curr) => acc + curr.price * curr.quantity, 0) and
\* subtotal += p.price * p.quantity: whole prices and quantities
reduceSubtotalNumber(products, k) ==
    IF k = 0 THEN DoubleOfInt(0)
    ELSE numberAdd(reduceSubtotalNumber(products, k - 1),
                   DoubleOfInt(products[k].price * products[k].quantity))

\* manualDiscount of App, manualDiscountAmount of createPDFDoc
manualDiscountNumber(subtotal, discountType, discountValue) ==
    IF discountType = "fixed" THEN discountValue
    ELSE numberMul(subtotal, numberDiv(discountValue, 100))

\* the totals App computes and shows
AppTotalsNumber(d) ==
    LET subtotal      == reduceSubtotalNumber(d.products, Len(d.products))
        bundleDetails == getBundleDetails(d.products)
        bundle        == DoubleOfInt(bundleDetails.totalDiscount)
        manual        == manualDiscountNumber(subtotal, d.discountType,
                                              d.discountValue)
        totalDiscount == numberAdd(bundle, manual)
    IN  [subtotal |-> subtotal,
         bundleDiscount |-> bundle,
         bundleDiscountLabel |-> bundleDetails.label,
         manualDiscount |-> manual,
         totalDiscount |-> totalDiscount,
         totalValue |-> numberMax0(numberSub(subtotal, totalDiscount))]

\* the totals createPDFDoc computes and prints
createPDFDocTotalsNumber(e) ==
    LET subtotal == reduceSubtotalNumber(e.products, Len(e.products))
        manual   == manualDiscountNumber(subtotal, e.discountType, e.discountValue)
        bundle   == e.bundleDiscount
    IN  [subtotal |-> subtotal,
         manualDiscountAmount |-> manual,
         bundleDiscountAmount |-> bundle,
         finalTotal |-> numberMax0(numberSub(numberSub(subtotal, manual), bundle))]

(* ------------------------------- inputs -------------------------------- *)
\* line items with whole prices, as a catalogue can hold them
NumberItems ==
    { SizedProduct(COLCHAO_CASAL, 1299, 1),
      SizedProduct(COLCHAO_CASAL, 1000, 2),
      SizedProduct("BASE CASAL", 400, 1),
      SizedProduct("BASE CASAL", 449, 1),
      SizedProduct(specificPillowName, 100, 1) }

NumberCarts == UNION { [1..n -> NumberItems] : n \in 1..2 }

\* what the clerk types into the discount field: 0  1,5  3,5  10  12,5  150
DiscountTexts ==
    { [digits |-> 0, decimals |-> 0], [digits |-> 15, decimals |-> 1],
      [digits |-> 35, decimals |-> 1], [digits |-> 10, decimals |-> 0],
      [digits |-> 125, decimals |-> 1], [digits |-> 150, decimals |-> 0] }

NumberInit ==
    /\ data \in { [products |-> c, discountType |-> t,
                    discountValue |-> parseFloat(text)] :
                    c \in NumberCarts, t \in {"fixed", "percentage"},
                    text \in DiscountTexts }
    /\ pc = "input"
    /\ view = None
    /\ pdf = None
    /\ doc = None
    /\ ui = None
    /\ req = None

\* App renders its totals
RenderNumber ==
    /\ pc = "input"
    /\ view' = AppTotalsNumber(data)
    /\ pc' = "rendered"
    /\ UNCHANGED <<data, pdf, doc, ui, req>>

\* handleGeneratePDF: createPDFDoc on getDataForExport()
handleGeneratePDFNumber ==
    /\ pc = "rendered"
    /\ pdf' = createPDFDocTotalsNumber(getDataForExport(data, view))
    /\ pc' = "exported"
    /\ UNCHANGED <<data, view, doc, ui, req>>

NumberNext == RenderNumber \/ handleGeneratePDFNumber

NumberSpec == NumberInit /\ [][NumberNext]_vars

\* C28: for every receipt handed to createPDFDoc through getDataForExport the
\* subtotal, the manual discount and the total the PDF prints equal the
\* subtotal, the manual discount and the total the app shows for the same
\* cart, discount config and automatic discount.
C28_PdfPrintsAppTotals ==
    pc = "exported" =>
        /\ printedCents(pdf.subtotal) = printedCents(view.subtotal)
        /\ printedCents(pdf.manualDiscountAmount) = printedCents(view.manualDiscount)
        /\ printedCents(pdf.finalTotal) = printedCents(view.totalValue)

\* the subtotal and the manual discount are the same Number on both sides
NumberInputsAgree ==
    pc = "exported" =>
        /\ pdf.subtotal = view.subtotal
        /\ pdf.manualDiscountAmount = view.manualDiscount
        /\ pdf.bundleDiscountAmount = view.bundleDiscount

\* the two totals differ as Numbers
NumberTotalsDiffer == pc = "exported" /\ pdf.finalTotal # view.totalValue

====
